---- MODULE Spec2Model ----
(***************************************************************************)
(* A model of the llmz iteration engine (packages/llmz/src/llmz.ts):       *)
(* executeContext's run loop, executeIteration's classification of one     *)
(* generated program, and the intercepted property setters of declared     *)
(* objects.  The model client, the sandbox and the generated program are   *)
(* the environment: each of their possible answers is a separate action.   *)
(***************************************************************************)
EXTENDS Integers, Sequences, FiniteSets, TLC

\* Largest loop budget (ctx.loop) a run is started with.
MaxLoop == 2
\* Number of property assignments the generated programs of one run perform.
MaxWrites == 2
\* resolve and reject calls made on the snapshot of a run
MaxConsume == 2
\* estimated tokens of one message, messages of one list, truncations of one list
MaxTokens == 2
MaxMessages == 2
MaxTruncations == 2
\* tool wrapper calls of one program
MaxCalls == 1

VARIABLES
  loop,                      \* ctx.loop, the loop budget
  iteration,                 \* ctx.iteration, the iteration counter
  iterations,                \* ctx.iterations, the Iteration Records
  partialExecutionMessages,  \* ctx.partialExecutionMessages
  injectedVariables,         \* ctx.injectedVariables
  aborted,                   \* signal.aborted
  pc,                        \* the await point executeContext is suspended at
  traces,                    \* the traces array of the cycle in progress
  internalValues,            \* internalValues of the bindings of this cycle
  changes,                   \* the changes map of this cycle, in insertion order
  result,                    \* the ExecutionResult executeContext returned
  llmCalls,                  \* calls of cognitive.generateContent so far
  vmRuns,                    \* calls of runAsyncFunction so far
  snapshots,                 \* calls of createSnapshot so far
  lastSet,                   \* the last call of a property setter in this cycle
  writes,                    \* property assignments performed so far in the run
  cycles,                    \* calls of executeIteration so far
  cyclePushed,               \* records pushed by the cycle in progress
  vmVariables,               \* result.variables of the last runAsyncFunction call
  returned,                  \* the iterations list of the returned ExecutionResult
  consumed,                  \* how the snapshot of the run was consumed, "no" if it was not
  resumes,                   \* re-entries of the program from a snapshot so far
  usageErrors,               \* resolve and reject calls refused as usage errors so far
  messages,                  \* the message list the Truncation Manager is applied to
  tokenLimit,                \* the token limit of the truncation
  lastInput,                 \* the argument of the last truncateWrappedContent call
  truncations,               \* calls of truncateWrappedContent so far
  calls,                     \* the calls of tool wrappers made by the program of this cycle
  executions,                \* the calls of tool.execute, as <<tool name, input>>
  instance,                  \* the sandbox binding of the declared object
  lastShapeOp,               \* the last attempt of the program to add or delete a member
  truncated,                 \* the list truncateWrappedContent returned for a model call
  sentMessages,              \* the messages argument of cognitive.generateContent
  systemPrompt,              \* the systemPrompt argument of cognitive.generateContent
  generated,                 \* calls of cognitive.generateContent on that list
  modelLimit,                \* modelLimit, the context window, in tokens
  responseLengthBuffer,      \* responseLengthBuffer, in tenths of a token
  tokenBudget,               \* the tokenLimit argument of the truncation, in tenths of a token
  hookLog                    \* how the hooks of a cycle have settled

vars == <<loop, iteration, iterations, partialExecutionMessages, injectedVariables,
          aborted, pc, traces, internalValues, changes, result, llmCalls, vmRuns,
          snapshots, lastSet, writes, cycles, cyclePushed, vmVariables, returned,
          consumed, resumes, usageErrors, messages, tokenLimit, lastInput, truncations,
          calls, executions, instance, lastShapeOp,
          truncated, sentMessages, systemPrompt, generated,
          modelLimit, responseLengthBuffer, tokenBudget, hookLog>>

\* The state of the sandbox bindings: tool wrappers and the object instance.
sandboxVars == <<calls, executions, instance, lastShapeOp>>

\* The arguments of one model call.
generateVars == <<truncated, sentMessages, systemPrompt, generated>>

\* The token budget of one cycle.
budgetVars == <<modelLimit, responseLengthBuffer, tokenBudget>>

\* The hooks of the caller.
hookVars == <<hookLog>>

\* The state of the Truncation Manager.
truncatorVars == <<messages, tokenLimit, lastInput, truncations>>

\* The state of the Snapshot Subsystem.
snapshotVars == <<consumed, resumes, usageErrors>>

----------------------------------------------------------------------------
\* Values a program can assign.  A value has a kind, a content and, for
\* objects, the identity of the object holding that content.

Num(n) == [kind |-> "number", val |-> n, ref |-> 0]
\* Str(n) is the numeral of n for n > 0, and a non-numeric text for n = 0.
Str(n) == [kind |-> "string", val |-> n, ref |-> 0]
Obj(n, r) == [kind |-> "object", val |-> n, ref |-> r]

Values == {Num(1), Num(2), Str(2), Str(0), Obj(1, 2), Obj(2, 3)}

\* lodash isEqual: same kind and same content, whatever the identity.
isEqual(a, b) == a.kind = b.kind /\ a.val = b.val

\* JavaScript ===: primitives by content, objects by identity.
strictEqual(a, b) == a = b

\* obj.properties of the one declared object: name -> {value, writable, type}.
PropNames == {"id", "count", "data"}

Properties ==
  [p \in PropNames |->
     CASE p = "id"    -> [value |-> Obj(1, 1), writable |-> FALSE, type |-> "any"]
       [] p = "count" -> [value |-> Num(1),    writable |-> TRUE,  type |-> "coerce"]
       [] p = "data"  -> [value |-> Obj(1, 1), writable |-> TRUE,  type |-> "object"]]

\* schema.safeParse(value) for the three schemas the declared properties use:
\* z.any(), z.coerce.number() and z.object(...), which returns a copy of the
\* object it is given (a new identity, written 9 here).
safeParse(type, v) ==
  CASE type = "any" -> [success |-> TRUE, data |-> v]
    [] type = "coerce" ->
         IF v.kind = "number" THEN [success |-> TRUE, data |-> v]
         ELSE IF v.kind = "string" /\ v.val > 0
              THEN [success |-> TRUE, data |-> Num(v.val)]
              ELSE [success |-> FALSE, data |-> v]
    [] type = "object" ->
         IF v.kind = "object" THEN [success |-> TRUE, data |-> Obj(v.val, 9)]
         ELSE [success |-> FALSE, data |-> v]

----------------------------------------------------------------------------
\* Variable maps (injected variables, a program's variables, a think context):
\* key -> value, 0 meaning the key is absent.

Keys == {"x", "y"}
EmptyVars == [k \in Keys |-> 0]
VarChoices == {EmptyVars, [k \in Keys |-> IF k = "x" THEN 1 ELSE 0]}
ContextChoices == {EmptyVars, [k \in Keys |-> 2]}

\* Object.assign(target, source)
ObjectAssign(target, source) ==
  [k \in Keys |-> IF source[k] # 0 THEN source[k] ELSE target[k]]

----------------------------------------------------------------------------
\* Traces, mutations and Iteration Records.

NoValue == Num(0)

Trace(type, property, value) == [type |-> type, property |-> property, value |-> value]
LlmCallTrace == Trace("llm_call", "", NoValue)
AbortTrace == Trace("abort_signal", "", NoValue)
CodeExecutionTrace == Trace("code_execution", "", NoValue)
PropertyTrace(p, v) == Trace("property", p, v)

Mutation(p, before, after) == [property |-> p, before |-> before, after |-> after]

Iteration(status, error, signal, variables, context, tr, mut) ==
  [status |-> status, error |-> error, signal |-> signal, variables |-> variables,
   context |-> context, traces |-> tr, mutations |-> mut]

NoResult == [status |-> "running", error |-> "none", snapshot |-> FALSE]
Result(status, error, snapshot) == [status |-> status, error |-> error, snapshot |-> snapshot]

NoSet == [prop |-> "", value |-> NoValue, before |-> NoValue, outcome |-> "none"]

\* createContext: the Context of a fresh run with loop budget n.
createContext(n) ==
  [loop |-> n, iteration |-> 0, iterations |-> <<>>, partialExecutionMessages |-> <<>>,
   injectedVariables |-> EmptyVars]

DeclaredValues == [p \in PropNames |-> Properties[p].value]

\* ctx.tools, the global tools: name -> aliases, the schema tool.zInput
\* parses the input with, and the schemas tool.input and tool.output.
ToolNames == {"search", "notify"}

Tools ==
  [t \in ToolNames |->
     IF t = "search"
     THEN [name |-> "search", aliases |-> {"find"}, zInput |-> "coerce",
           input |-> "search.input", output |-> "search.output"]
     ELSE [name |-> "notify", aliases |-> {}, zInput |-> "any",
           input |-> "notify.input", output |-> "notify.output"]]

\* obj.tools of the declared object.
ObjectToolNames == {"save"}

\* An instance left extensible and configurable: neither preventExtensions
\* nor seal.
buildInstance_Unsealed ==
  [members |-> PropNames \cup ObjectToolNames, extensible |-> TRUE, configurable |-> TRUE]

\* The binding of the declared object: a member for every property and every
\* bound tool, then Object.preventExtensions and Object.seal.
buildInstance ==
  [members |-> PropNames \cup ObjectToolNames, extensible |-> FALSE, configurable |-> FALSE]

NoShapeOp == [op |-> "none", name |-> "", done |-> FALSE]

\* No program has touched the bindings yet.
SandboxIdle ==
  /\ calls = <<>>
  /\ executions = <<>>
  /\ instance = buildInstance
  /\ lastShapeOp = NoShapeOp

\* The systemPrompt argument when the list has no system message.
NoPrompt == <<"undefined">>

GenerateIdle ==
  /\ truncated = <<>>
  /\ sentMessages = <<>>
  /\ systemPrompt = NoPrompt
  /\ generated = 0

\* const modelLimit = 128_000
ModelLimit == 128000

\* The budget of the cycle has not been computed yet.
BudgetIdle ==
  /\ modelLimit = ModelLimit
  /\ responseLengthBuffer = 0
  /\ tokenBudget = 0

\* The hooks of a cycle, both still to settle.
NoHooks(cycle) ==
  [cycle |-> cycle, onIterationStart |-> "pending", onIterationEnd |-> "pending"]

\* No hook has been called.
HookIdle == hookLog = NoHooks(0)

\* The state after createContext, before the first pass of the loop.
RunInit ==
  /\ \E n \in 1..MaxLoop :
       LET ctx == createContext(n) IN
       /\ loop = ctx.loop
       /\ iteration = ctx.iteration
       /\ iterations = ctx.iterations
       /\ partialExecutionMessages = ctx.partialExecutionMessages
       /\ injectedVariables = ctx.injectedVariables
  /\ aborted = FALSE
  /\ pc = "top"
  /\ traces = <<>>
  /\ internalValues = DeclaredValues
  /\ changes = <<>>
  /\ result = NoResult
  /\ llmCalls = 0
  /\ vmRuns = 0
  /\ snapshots = 0
  /\ lastSet = NoSet
  /\ writes = 0
  /\ cycles = 0
  /\ cyclePushed = 0
  /\ vmVariables = EmptyVars
  /\ returned = <<>>
  /\ consumed = "no"
  /\ resumes = 0
  /\ usageErrors = 0

\* No list is being truncated.
TruncatorIdle ==
  /\ messages = <<>>
  /\ tokenLimit = 0
  /\ lastInput = <<>>
  /\ truncations = 0

Init ==
  /\ RunInit
  /\ TruncatorIdle
  /\ SandboxIdle
  /\ GenerateIdle
  /\ BudgetIdle
  /\ HookIdle

----------------------------------------------------------------------------
\* The property setter (Object.defineProperty ... set(value)).

\* The setter without the writable test.
setOutcome_SkipReadOnly(p, v, cur) ==
  IF isEqual(v, cur) THEN "noop"
  ELSE IF ~safeParse(Properties[p].type, v).success THEN "AssignmentError: invalid"
  ELSE "commit"

\* The setter comparing with === alone, without isEqual.
setOutcome_StrictEqual(p, v, cur) ==
  IF ~Properties[p].writable THEN "AssignmentError: read-only"
  ELSE IF strictEqual(v, cur) THEN "noop"
  ELSE IF ~safeParse(Properties[p].type, v).success THEN "AssignmentError: invalid"
  ELSE "commit"

\* The setter committing without looking at parsed.success.
setOutcome_NoValidation(p, v, cur) ==
  IF isEqual(v, cur) THEN "noop"
  ELSE IF ~Properties[p].writable THEN "AssignmentError: read-only"
  ELSE IF strictEqual(v, cur) THEN "noop"
  ELSE "commit"

\* What the setter of property p does with value v when cur is stored.
setOutcome(p, v, cur) ==
  IF isEqual(v, cur) THEN "noop"
  ELSE IF ~Properties[p].writable THEN "AssignmentError: read-only"
  ELSE IF strictEqual(v, cur) THEN "noop"
  ELSE IF ~safeParse(Properties[p].type, v).success THEN "AssignmentError: invalid"
  ELSE "commit"

IsRejected(outcome) ==
  outcome \in {"AssignmentError: read-only", "AssignmentError: invalid"}

\* changes kept as a list that every commit is pushed onto.
changesSet_Push(chg, m) == Append(chg, m)

\* changes.set(changeSet, mutation): a Map keeps the position of a key it
\* already holds and appends a new one.
changesSet(chg, m) ==
  IF \E i \in 1..Len(chg) : chg[i].property = m.property
  THEN [i \in 1..Len(chg) |-> IF chg[i].property = m.property THEN m ELSE chg[i]]
  ELSE Append(chg, m)

\* The program assigns v to property p of the declared object.
PropertySet(p, v) ==
  /\ pc = "exec"
  /\ writes < MaxWrites
  /\ writes' = writes + 1
  /\ LET cur == internalValues[p]
         outcome == setOutcome(p, v, cur)
         data == safeParse(Properties[p].type, v).data
     IN /\ lastSet' = [prop |-> p, value |-> v, before |-> cur, outcome |-> outcome]
        /\ IF outcome = "commit"
           THEN /\ internalValues' = [internalValues EXCEPT ![p] = data]
                /\ traces' = Append(traces, PropertyTrace(p, data))
                /\ changes' = changesSet(changes, Mutation(p, Properties[p].value, data))
           ELSE UNCHANGED <<internalValues, traces, changes>>
  /\ UNCHANGED <<loop, iteration, iterations, partialExecutionMessages, injectedVariables,
                 aborted, pc, result, llmCalls, vmRuns, snapshots, cycles, cyclePushed>>
  /\ UNCHANGED <<vmVariables, returned>>
  /\ UNCHANGED <<snapshotVars, truncatorVars, sandboxVars, generateVars, budgetVars, hookVars>>

----------------------------------------------------------------------------
\* executeContext: the run loop.

\* The places where executeContext is suspended and other code can run.
AwaitPoints == {"llm", "onIterationStart", "exec", "onIterationEnd"}

\* The caller aborts the AbortController; an AbortSignal never goes back.
Abort ==
  /\ ~aborted
  /\ pc \in AwaitPoints \/ (pc = "top" /\ cycles = 0)
  /\ aborted' = TRUE
  /\ UNCHANGED <<loop, iteration, iterations, partialExecutionMessages, injectedVariables,
                 pc, traces, internalValues, changes, result, llmCalls, vmRuns,
                 snapshots, lastSet, writes, cycles, cyclePushed>>
  /\ UNCHANGED <<vmVariables, returned>>
  /\ UNCHANGED <<snapshotVars, truncatorVars, sandboxVars, generateVars, budgetVars, hookVars>>

\* The record the inner catch block builds for an error.
SyntheticRecord(error) == Iteration("error", error, "none", EmptyVars, EmptyVars, <<>>, <<>>)

\* The inner catch without the LoopExceededError test.
innerCatch_PushAlways(its, error) == Append(its, SyntheticRecord(error))

\* The inner catch rethrowing without recording anything.
innerCatch_NeverPush(its, error) == its

\* An inner catch that overwrites the last record with the error record.
innerCatch_ReplaceLast(its, error) ==
  IF error = "LoopExceededError" THEN its
  ELSE IF Len(its) > 0 THEN [its EXCEPT ![Len(its)] = SyntheticRecord(error)]
  ELSE Append(its, SyntheticRecord(error))

\* catch (error) of the inner try: Loop-exceeded is rethrown as it is, any
\* other error first gets a record of its own.
innerCatch(its, error) ==
  IF error = "LoopExceededError" THEN its ELSE Append(its, SyntheticRecord(error))

\* An error thrown inside the inner try region: inner catch, then the outer
\* catch returns the error outcome.
Throw(error) ==
  /\ iterations' = innerCatch(iterations, error)
  /\ cyclePushed' = cyclePushed + (Len(innerCatch(iterations, error)) - Len(iterations))
  /\ result' = Result("error", error, FALSE)
  /\ returned' = innerCatch(iterations, error)
  /\ pc' = "done"

\* if (signal?.aborted) at the top of the loop body, outside the inner try.
AbortedAtStart ==
  /\ pc = "top"
  /\ aborted
  /\ result' = Result("error", "aborted", FALSE)
  /\ returned' = iterations
  /\ pc' = "done"
  /\ UNCHANGED <<loop, iteration, iterations, partialExecutionMessages, injectedVariables,
                 aborted, traces, internalValues, changes, llmCalls, vmRuns, snapshots,
                 lastSet, writes, cycles, cyclePushed>>
  /\ UNCHANGED vmVariables
  /\ UNCHANGED <<snapshotVars, truncatorVars, sandboxVars, generateVars, budgetVars, hookVars>>

\* The test written ctx.iteration > ctx.loop.
loopExceeded_OffByOne(i, n) == i > n

\* The test written ++ctx.iteration >= ctx.loop.
loopExceeded_PreIncrement(i, n) == i + 1 >= n

\* ctx.iteration++ >= ctx.loop, on the value the counter had before the ++.
loopExceeded(i, n) == i >= n

\* executeIteration finds the budget used up and throws LoopExceededError.
LoopExceeded ==
  /\ pc = "top"
  /\ ~aborted
  /\ loopExceeded(iteration, loop)
  /\ iteration' = iteration + 1
  /\ cycles' = cycles + 1
  /\ iterations' = innerCatch(iterations, "LoopExceededError")
  /\ cyclePushed' = Len(innerCatch(iterations, "LoopExceededError")) - Len(iterations)
  /\ result' = Result("error", "LoopExceededError", FALSE)
  /\ returned' = innerCatch(iterations, "LoopExceededError")
  /\ pc' = "done"
  /\ UNCHANGED <<loop, partialExecutionMessages, injectedVariables, aborted, traces,
                 internalValues, changes, llmCalls, vmRuns, snapshots, lastSet, writes>>
  /\ UNCHANGED vmVariables
  /\ UNCHANGED <<snapshotVars, truncatorVars, sandboxVars, generateVars, budgetVars, hookVars>>

\* executeIteration starts: the counter is incremented, the messages are
\* truncated and cognitive.generateContent is called.
StartIteration ==
  /\ pc = "top"
  /\ ~aborted
  /\ ~loopExceeded(iteration, loop)
  /\ iteration' = iteration + 1
  /\ cycles' = cycles + 1
  /\ cyclePushed' = 0
  /\ traces' = <<>>
  /\ llmCalls' = llmCalls + 1
  /\ pc' = "llm"
  /\ UNCHANGED <<loop, iterations, partialExecutionMessages, injectedVariables, aborted,
                 internalValues, changes, result, vmRuns, snapshots, lastSet, writes>>
  /\ UNCHANGED <<vmVariables, returned>>
  /\ UNCHANGED <<snapshotVars, truncatorVars, sandboxVars, generateVars, budgetVars, hookVars>>

\* LlmFails that treats a response without text as a recoverable failure:
\* an error record, a corrective message, and the loop goes on.
LlmFails_NoOutputRetries ==
  /\ pc = "llm"
  /\ \/ /\ Throw("llm_failure")
        /\ UNCHANGED partialExecutionMessages
     \/ /\ iterations' = Append(iterations, SyntheticRecord("no_output"))
        /\ cyclePushed' = cyclePushed + 1
        /\ partialExecutionMessages' =
             partialExecutionMessages \o <<"assistant", "invalid_code">>
        /\ pc' = "onIterationEnd"
        /\ UNCHANGED <<result, returned>>
  /\ UNCHANGED <<loop, iteration, injectedVariables, aborted,
                 traces, internalValues, changes, llmCalls, vmRuns, snapshots, lastSet,
                 writes, cycles>>
  /\ UNCHANGED vmVariables
  /\ UNCHANGED <<snapshotVars, truncatorVars, sandboxVars, generateVars, budgetVars, hookVars>>

\* generateContent rejects, or returns no text choice ('No output from LLM').
LlmFails ==
  /\ pc = "llm"
  /\ \E error \in {"llm_failure", "no_output"} : Throw(error)
  /\ UNCHANGED <<loop, iteration, partialExecutionMessages, injectedVariables, aborted,
                 traces, internalValues, changes, llmCalls, vmRuns, snapshots, lastSet,
                 writes, cycles>>
  /\ UNCHANGED vmVariables
  /\ UNCHANGED <<snapshotVars, truncatorVars, sandboxVars, generateVars, budgetVars, hookVars>>

\* generateContent returns text: it is parsed, the llm_call trace is pushed
\* and onIterationStart is awaited.
LlmReturns ==
  /\ pc = "llm"
  /\ traces' = Append(traces, LlmCallTrace)
  /\ pc' = "onIterationStart"
  /\ UNCHANGED <<loop, iteration, iterations, partialExecutionMessages, injectedVariables,
                 aborted, internalValues, changes, result, llmCalls, vmRuns, snapshots,
                 lastSet, writes, cycles, cyclePushed>>
  /\ UNCHANGED <<vmVariables, returned>>
  /\ UNCHANGED <<snapshotVars, truncatorVars, sandboxVars, generateVars, budgetVars, hookVars>>

\* PrepareExecution without the abort check in front of the sandbox call.
PrepareExecution_NoAbortCheck ==
  /\ pc = "onIterationStart"
  /\ internalValues' = DeclaredValues
  /\ changes' = <<>>
  /\ lastSet' = NoSet
  /\ vmRuns' = vmRuns + 1
  /\ pc' = "exec"
  /\ UNCHANGED <<traces, iterations, cyclePushed>>
  /\ UNCHANGED <<loop, iteration, partialExecutionMessages, injectedVariables, aborted,
                 result, llmCalls, snapshots, writes, cycles>>
  /\ UNCHANGED <<vmVariables, returned>>
  /\ UNCHANGED <<snapshotVars, truncatorVars, sandboxVars, generateVars, budgetVars, hookVars>>

\* PrepareExecution that builds the bindings on the values the last cycle
\* left.
PrepareExecution_KeepsValues ==
  /\ pc = "onIterationStart"
  /\ changes' = <<>>
  /\ lastSet' = NoSet
  /\ IF aborted
     THEN /\ traces' = Append(traces, AbortTrace)
          /\ iterations' = Append(iterations,
                Iteration("error", "aborted", "none", EmptyVars, EmptyVars,
                          Append(traces, AbortTrace), <<>>))
          /\ cyclePushed' = cyclePushed + 1
          /\ pc' = "onIterationEnd"
          /\ UNCHANGED vmRuns
     ELSE /\ vmRuns' = vmRuns + 1
          /\ pc' = "exec"
          /\ UNCHANGED <<traces, iterations, cyclePushed>>
  /\ UNCHANGED <<loop, iteration, partialExecutionMessages, injectedVariables, aborted,
                 result, llmCalls, snapshots, writes, cycles, internalValues>>
  /\ UNCHANGED <<vmVariables, returned>>
  /\ UNCHANGED <<snapshotVars, truncatorVars, sandboxVars, generateVars, budgetVars, hookVars>>

\* onIterationStart has returned (or thrown, which is swallowed): the bindings
\* are built afresh from the declarations.  If the signal is aborted the
\* iteration returns an error record with an abort_signal trace, otherwise
\* runAsyncFunction is called.
PrepareExecution ==
  /\ pc = "onIterationStart"
  /\ internalValues' = DeclaredValues
  /\ changes' = <<>>
  /\ lastSet' = NoSet
  /\ IF aborted
     THEN /\ traces' = Append(traces, AbortTrace)
          /\ iterations' = Append(iterations,
                Iteration("error", "aborted", "none", EmptyVars, EmptyVars,
                          Append(traces, AbortTrace), <<>>))
          /\ cyclePushed' = cyclePushed + 1
          /\ pc' = "onIterationEnd"
          /\ UNCHANGED vmRuns
     ELSE /\ vmRuns' = vmRuns + 1
          /\ pc' = "exec"
          /\ UNCHANGED <<traces, iterations, cyclePushed>>
  /\ UNCHANGED <<loop, iteration, partialExecutionMessages, injectedVariables, aborted,
                 result, llmCalls, snapshots, writes, cycles>>
  /\ UNCHANGED <<vmVariables, returned>>
  /\ UNCHANGED <<snapshotVars, truncatorVars, sandboxVars, generateVars, budgetVars, hookVars>>

\* executeIteration returns record rec, which executeContext pushes before it
\* awaits onIterationEnd.
Return(rec) ==
  /\ iterations' = Append(iterations, rec)
  /\ cyclePushed' = cyclePushed + 1
  /\ pc' = "onIterationEnd"

\* ExecInvalidCode that adds nothing to the partial-execution messages.
ExecInvalidCode_NoMessage ==
  /\ pc = "exec"
  /\ lastSet = NoSet
  /\ Return(Iteration("error", "InvalidCodeError", "none", EmptyVars, EmptyVars,
                      traces, changes))
  /\ UNCHANGED <<loop, iteration, partialExecutionMessages, injectedVariables, aborted,
                 traces, internalValues, changes, result, llmCalls, vmRuns, snapshots,
                 lastSet, writes, cycles>>
  /\ vmVariables' = EmptyVars
  /\ UNCHANGED returned
  /\ UNCHANGED <<snapshotVars, truncatorVars, sandboxVars, generateVars, budgetVars, hookVars>>

\* runAsyncFunction throws InvalidCodeError: the program never started.
ExecInvalidCode ==
  /\ pc = "exec"
  /\ lastSet = NoSet
  /\ partialExecutionMessages' = partialExecutionMessages \o <<"assistant", "invalid_code">>
  /\ Return(Iteration("error", "InvalidCodeError", "none", EmptyVars, EmptyVars,
                      traces, changes))
  /\ UNCHANGED <<loop, iteration, injectedVariables, aborted, traces, internalValues,
                 changes, result, llmCalls, vmRuns, snapshots, lastSet, writes, cycles>>
  /\ vmVariables' = EmptyVars
  /\ UNCHANGED returned
  /\ UNCHANGED <<snapshotVars, truncatorVars, sandboxVars, generateVars, budgetVars, hookVars>>

\* ExecThink that hands the budget back, as a success does.
ExecThink_ResetsCounter(explicit, variables, context) ==
  /\ pc = "exec"
  /\ partialExecutionMessages' = partialExecutionMessages \o <<"assistant", "thinking">>
  /\ iteration' = 0
  /\ traces' = Append(traces, CodeExecutionTrace)
  /\ Return(Iteration("partial", "none", "ThinkSignal",
                      IF explicit THEN variables ELSE EmptyVars, context,
                      Append(traces, CodeExecutionTrace), changes))
  /\ UNCHANGED <<loop, injectedVariables, aborted, internalValues, changes,
                 result, llmCalls, vmRuns, snapshots, lastSet, writes, cycles>>
  /\ vmVariables' = variables
  /\ UNCHANGED returned
  /\ UNCHANGED <<snapshotVars, truncatorVars, sandboxVars, generateVars, budgetVars, hookVars>>

\* The program raises a ThinkSignal (explicit), or succeeds with the return
\* value {action: 'think', ...context} (not explicit), in which case
\* result.signal is not set and the record's variables are {}.
ExecThink(explicit, variables, context) ==
  /\ pc = "exec"
  /\ partialExecutionMessages' = partialExecutionMessages \o <<"assistant", "thinking">>
  /\ traces' = Append(traces, CodeExecutionTrace)
  /\ Return(Iteration("partial", "none", "ThinkSignal",
                      IF explicit THEN variables ELSE EmptyVars, context,
                      Append(traces, CodeExecutionTrace), changes))
  /\ UNCHANGED <<loop, iteration, injectedVariables, aborted, internalValues, changes,
                 result, llmCalls, vmRuns, snapshots, lastSet, writes, cycles>>
  /\ vmVariables' = variables
  /\ UNCHANGED returned
  /\ UNCHANGED <<snapshotVars, truncatorVars, sandboxVars, generateVars, budgetVars, hookVars>>

\* ExecSuccess without the reset of the counter and of the messages.
ExecSuccess_NoReset(signal, variables) ==
  /\ pc = "exec"
  /\ traces' = Append(traces, CodeExecutionTrace)
  /\ Return(Iteration("success", "none", signal, variables, EmptyVars,
                      Append(traces, CodeExecutionTrace), changes))
  /\ UNCHANGED <<loop, iteration, partialExecutionMessages, injectedVariables, aborted,
                 internalValues, changes, result, llmCalls, vmRuns, snapshots, lastSet,
                 writes, cycles>>
  /\ vmVariables' = variables
  /\ UNCHANGED returned
  /\ UNCHANGED <<snapshotVars, truncatorVars, sandboxVars, generateVars, budgetVars, hookVars>>

\* The program succeeds (signal "none"), or a tool raised a VMInterruptSignal.
ExecSuccess(signal, variables) ==
  /\ pc = "exec"
  /\ partialExecutionMessages' = <<>>
  /\ iteration' = 0
  /\ traces' = Append(traces, CodeExecutionTrace)
  /\ Return(Iteration("success", "none", signal, variables, EmptyVars,
                      Append(traces, CodeExecutionTrace), changes))
  /\ UNCHANGED <<loop, injectedVariables, aborted, internalValues, changes, result,
                 llmCalls, vmRuns, snapshots, lastSet, writes, cycles>>
  /\ vmVariables' = variables
  /\ UNCHANGED returned
  /\ UNCHANGED <<snapshotVars, truncatorVars, sandboxVars, generateVars, budgetVars, hookVars>>

\* The program fails with a CodeExecutionError (an uncaught AssignmentError
\* among others).
ExecCodeExecutionError(variables) ==
  /\ pc = "exec"
  /\ partialExecutionMessages' = partialExecutionMessages \o <<"assistant", "execution_error">>
  /\ Return(Iteration("error", "CodeExecutionError", "none", variables, EmptyVars,
                      traces, changes))
  /\ UNCHANGED <<loop, iteration, injectedVariables, aborted, traces, internalValues,
                 changes, result, llmCalls, vmRuns, snapshots, lastSet, writes, cycles>>
  /\ vmVariables' = variables
  /\ UNCHANGED returned
  /\ UNCHANGED <<snapshotVars, truncatorVars, sandboxVars, generateVars, budgetVars, hookVars>>

\* runAsyncFunction throws, or returns a failure that is no CodeExecutionError
\* (throw result.error).
ExecThrows ==
  /\ pc = "exec"
  /\ Throw("vm_failure")
  /\ UNCHANGED <<loop, iteration, partialExecutionMessages, injectedVariables, aborted,
                 traces, internalValues, changes, llmCalls, vmRuns, snapshots, lastSet,
                 writes, cycles>>
  /\ UNCHANGED vmVariables
  /\ UNCHANGED <<snapshotVars, truncatorVars, sandboxVars, generateVars, budgetVars, hookVars>>

\* The loop without the abort check after onIterationEnd.
abortedAfterIteration_Never(a) == FALSE

\* if (signal?.aborted) after onIterationEnd.
abortedAfterIteration(a) == a

\* The two success tests in the other order.
outcomeOf_SuccessFirst(rec) ==
  IF rec.status = "success" THEN "success"
  ELSE IF rec.status = "success" /\ rec.signal = "VMInterruptSignal" THEN "interrupted"
  ELSE "continue"

\* What executeContext does with the record it has just pushed.
outcomeOf(rec) ==
  IF rec.status = "success" /\ rec.signal = "VMInterruptSignal" THEN "interrupted"
  ELSE IF rec.status = "success" THEN "success"
  ELSE "continue"

\* A foldThink that assigns the signal's context first and the variables
\* after it.
foldThink_VariablesLast(injected, rec) ==
  IF rec.status = "partial" /\ rec.signal = "ThinkSignal"
  THEN ObjectAssign(ObjectAssign(injected, rec.context), rec.variables)
  ELSE injected

\* The injected variables after a record: a partial record with a ThinkSignal
\* has its variables, then the signal's context, assigned to them.
foldThink(injected, rec) ==
  IF rec.status = "partial" /\ rec.signal = "ThinkSignal"
  THEN ObjectAssign(ObjectAssign(injected, rec.variables), rec.context)
  ELSE injected

\* onIterationEnd has returned (or thrown, which is logged): abort check, then
\* return the outcome or go round the loop again.
AfterIteration ==
  /\ pc = "onIterationEnd"
  /\ LET rec == iterations[Len(iterations)] IN
     IF abortedAfterIteration(aborted)
     THEN /\ Throw("aborted")
          /\ UNCHANGED <<injectedVariables, snapshots>>
     ELSE CASE outcomeOf(rec) = "interrupted" ->
                 /\ snapshots' = snapshots + 1
                 /\ result' = Result("interrupted", "none", TRUE)
                 /\ returned' = iterations
                 /\ pc' = "done"
                 /\ UNCHANGED <<iterations, injectedVariables, cyclePushed>>
            [] outcomeOf(rec) = "success" ->
                 /\ result' = Result("success", "none", FALSE)
                 /\ returned' = iterations
                 /\ pc' = "done"
                 /\ UNCHANGED <<iterations, injectedVariables, snapshots, cyclePushed>>
            [] OTHER ->
                 /\ injectedVariables' = foldThink(injectedVariables, rec)
                 /\ pc' = "top"
                 /\ UNCHANGED <<iterations, result, snapshots, cyclePushed, returned>>
  /\ UNCHANGED <<loop, iteration, partialExecutionMessages, aborted, traces,
                 internalValues, changes, llmCalls, vmRuns, lastSet, writes, cycles>>
  /\ UNCHANGED vmVariables
  /\ UNCHANGED <<snapshotVars, truncatorVars, sandboxVars, generateVars, budgetVars, hookVars>>

Next ==
  \/ Abort
  \/ AbortedAtStart
  \/ LoopExceeded
  \/ StartIteration
  \/ LlmFails
  \/ LlmReturns
  \/ PrepareExecution
  \/ \E p \in PropNames, v \in Values : PropertySet(p, v)
  \/ ExecInvalidCode
  \/ \E explicit \in BOOLEAN, variables \in VarChoices, context \in ContextChoices :
       ExecThink(explicit, variables, context)
  \/ \E signal \in {"none", "VMInterruptSignal"}, variables \in VarChoices :
       ExecSuccess(signal, variables)
  \/ \E variables \in VarChoices : ExecCodeExecutionError(variables)
  \/ ExecThrows
  \/ AfterIteration

Spec == Init /\ [][Next]_vars

----------------------------------------------------------------------------
\* The Snapshot Subsystem: resolve and reject of the snapshot an interrupted
\* run returned. The continuation of the loop after a re-entry is a further
\* run and is counted in resumes, not unfolded.

\* pending, resolved or rejected; none when the run returned no snapshot.
snapshotStatus ==
  IF ~result.snapshot THEN "none"
  ELSE IF consumed = "no" THEN "pending" ELSE consumed

\* consume without the check that the snapshot is still pending.
consume_NoCheck(how) ==
  /\ snapshotStatus # "none"
  /\ resumes + usageErrors < MaxConsume
  /\ consumed' = how
  /\ resumes' = resumes + 1
  /\ UNCHANGED usageErrors
  /\ UNCHANGED <<loop, iteration, iterations, partialExecutionMessages, injectedVariables,
                 aborted, pc, traces, internalValues, changes, result, llmCalls, vmRuns,
                 snapshots, lastSet, writes, cycles, cyclePushed, vmVariables, returned>>
  /\ UNCHANGED <<truncatorVars, sandboxVars, generateVars, budgetVars, hookVars>>

\* A pending snapshot is consumed and the program re-entered; a consumed one
\* is refused with a usage error.
consume(how) ==
  /\ snapshotStatus # "none"
  /\ resumes + usageErrors < MaxConsume
  /\ IF snapshotStatus = "pending"
     THEN /\ consumed' = how
          /\ resumes' = resumes + 1
          /\ UNCHANGED usageErrors
     ELSE /\ usageErrors' = usageErrors + 1
          /\ UNCHANGED <<consumed, resumes>>
  /\ UNCHANGED <<loop, iteration, iterations, partialExecutionMessages, injectedVariables,
                 aborted, pc, traces, internalValues, changes, result, llmCalls, vmRuns,
                 snapshots, lastSet, writes, cycles, cyclePushed, vmVariables, returned>>
  /\ UNCHANGED <<truncatorVars, sandboxVars, generateVars, budgetVars, hookVars>>

resolveContextSnapshot == consume("resolved")

rejectContextSnapshot == consume("rejected")

SnapshotNext ==
  \/ Next
  \/ resolveContextSnapshot
  \/ rejectContextSnapshot

SnapshotSpec == Init /\ [][SnapshotNext]_vars

----------------------------------------------------------------------------
\* The Truncation Manager, applied to message lists of its own. A message
\* is one wrapped block: its content as a sequence of token positions, its
\* flex weight, its floor minTokens, its anchored edge preserve, and whether
\* it carries a truncation marker.

Positions(n) == [i \in 1..n |-> i]

Message(n, flex, minTokens, preserve) ==
  [content |-> Positions(n), flex |-> flex, minTokens |-> minTokens,
   preserve |-> preserve, truncated |-> FALSE]

MessageChoices ==
  {Message(n, flex, minTokens, preserve) :
     n \in 0..MaxTokens, flex \in {1, 2}, minTokens \in {0, 1},
     preserve \in {"top", "bottom"}}

MessageLists == UNION {[1..n -> MessageChoices] : n \in 0..MaxMessages}

\* The estimated token size of a message list.
RECURSIVE EstimatedSize(_)
EstimatedSize(msgs) ==
  IF msgs = <<>> THEN 0 ELSE Len(Head(msgs).content) + EstimatedSize(Tail(msgs))

\* The blocks that are above their floor.
Shrinkable(msgs) == {i \in 1..Len(msgs) : Len(msgs[i].content) > msgs[i].minTokens}

\* The block to shrink next: the largest by flex weight, the first of equals.
PickBlock(msgs) ==
  CHOOSE i \in Shrinkable(msgs) :
    \A j \in Shrinkable(msgs) :
      \/ msgs[i].flex * Len(msgs[i].content) > msgs[j].flex * Len(msgs[j].content)
      \/ /\ msgs[i].flex * Len(msgs[i].content) = msgs[j].flex * Len(msgs[j].content)
         /\ i <= j

\* One token less, cut from the edge that is not anchored.
Cut(m) ==
  [m EXCEPT !.content = IF m.preserve = "top"
                        THEN SubSeq(m.content, 1, Len(m.content) - 1)
                        ELSE Tail(m.content),
            !.truncated = TRUE]

\* Shrink until the list fits or every block is at its floor (best effort:
\* the engine passes throwOnFailure: false).
RECURSIVE shrink(_, _)
shrink(msgs, limit) ==
  IF EstimatedSize(msgs) <= limit \/ Shrinkable(msgs) = {}
  THEN msgs
  ELSE shrink([msgs EXCEPT ![PickBlock(msgs)] = Cut(msgs[PickBlock(msgs)])], limit)

NotEmpty(m) == m.content # <<>>
NotEmptied(m) == ~(m.truncated /\ m.content = <<>>)

\* dropEmptied that drops every empty message, truncated or not.
dropEmptied_AnyEmpty(msgs) == SelectSeq(msgs, NotEmpty)

\* Messages that are empty after truncation are dropped.
dropEmptied(msgs) == SelectSeq(msgs, NotEmptied)

truncateWrappedContent(msgs, limit) == dropEmptied(shrink(msgs, limit))

TruncatorInit ==
  /\ RunInit
  /\ loop = 1
  /\ messages \in MessageLists
  /\ tokenLimit \in 0..(MaxTokens * MaxMessages)
  /\ lastInput = <<>>
  /\ truncations = 0
  /\ SandboxIdle
  /\ GenerateIdle
  /\ BudgetIdle
  /\ HookIdle

\* truncateWrappedContent is applied to the list, and its result kept.
Truncate ==
  /\ truncations < MaxTruncations
  /\ truncations' = truncations + 1
  /\ lastInput' = messages
  /\ messages' = truncateWrappedContent(messages, tokenLimit)
  /\ UNCHANGED <<tokenLimit, snapshotVars, sandboxVars, generateVars, budgetVars, hookVars>>
  /\ UNCHANGED <<loop, iteration, iterations, partialExecutionMessages, injectedVariables,
                 aborted, pc, traces, internalValues, changes, result, llmCalls, vmRuns,
                 snapshots, lastSet, writes, cycles, cyclePushed, vmVariables, returned>>

TruncatorNext == Truncate

TruncatorSpec == TruncatorInit /\ [][TruncatorNext]_vars

----------------------------------------------------------------------------
\* The sandbox bindings of one cycle: the tool wrappers of wrapTool and the
\* sealed instance of the declared object, driven by the program the sandbox
\* runs and by the promises and timers it leaves behind.

\* A JavaScript value that crosses a tool wrapper: the result of a tool,
\* undefined, a plain Error or one of the signals. toolCall is the annotation
\* of a VMInterruptSignal.
NoToolCall == [name |-> "", inputSchema |-> "", outputSchema |-> "", input |-> NoValue]
JSValue(kind) == [kind |-> kind, toolCall |-> NoToolCall]
Undefined == JSValue("undefined")
ToolResult == JSValue("result")

\* What a tool can throw or reject with.
ErrorKinds == {"Error", "undefined", "ThinkSignal", "ExecuteSignal", "VMInterruptSignal"}

\* instanceof VMSignal
isVMSignal(v) == v.kind \in {"ThinkSignal", "ExecuteSignal", "VMInterruptSignal"}

\* What tool.execute does with a call: return or resolve, throw or reject.
Outcomes ==
  {[how |-> "return", value |-> ToolResult]} \cup
  {[how |-> "throw", value |-> JSValue(k)] : k \in ErrorKinds}

Pending == [how |-> "pending", value |-> Undefined]

\* The inputs programs call tools with: a numeric string and a string that
\* is no number.
ToolInputs == {Str(2), Str(0)}

\* tool.zInput.safeParse(input).data ?? input
getToolInput(tool, input) ==
  LET parsed == safeParse(tool.zInput, input)
  IN IF parsed.success THEN parsed.data ELSE input

\* Traces of a wrapper; call identifies the invocation that pushed them.
ToolSlowTrace(call, tool, input) ==
  [type |-> "tool_slow", call |-> call, tool_name |-> tool.name,
   input |-> getToolInput(tool, input)]
SignalTrace(call, type) == [type |-> type, call |-> call]
ToolCallTrace(call, tool, input, output, error, success) ==
  [type |-> "tool_call", call |-> call, tool_name |-> tool.name,
   input |-> getToolInput(tool, input), output |-> output, error |-> error,
   success |-> success]

\* A handleSignals that treats no error as a signal.
handleSignals_NoSignals(call, output, error, tool, input) ==
  IF output = error
  THEN [handled |-> TRUE, pushed |-> <<>>, output |-> output, error |-> error]
  ELSE LET err == IF error.kind = "VMInterruptSignal"
                  THEN [error EXCEPT !.toolCall =
                          [name |-> tool.name, inputSchema |-> tool.input,
                           outputSchema |-> tool.output, input |-> input]]
                  ELSE error
       IN [handled |-> FALSE, pushed |-> <<>>, output |-> output, error |-> err]

\* A handleSignals that leaves a VMInterruptSignal without its toolCall.
handleSignals_NoAnnotation(call, output, error, tool, input) ==
  IF output = error
  THEN [handled |-> TRUE, pushed |-> <<>>, output |-> output, error |-> error]
  ELSE IF error.kind = "ThinkSignal"
  THEN [handled |-> TRUE, pushed |-> <<SignalTrace(call, "think_signal")>>,
        output |-> error, error |-> error]
  ELSE IF error.kind = "ExecuteSignal"
  THEN [handled |-> TRUE, pushed |-> <<SignalTrace(call, "execute_signal")>>,
        output |-> error, error |-> error]
  ELSE [handled |-> FALSE, pushed |-> <<>>, output |-> output, error |-> error]

\* handleSignals(error) with the wrapper's output as it is when it is called:
\* whether the error was handled as a signal, the traces pushed, the output
\* afterwards and the error object, annotated if it is a VMInterruptSignal.
handleSignals(call, output, error, tool, input) ==
  IF output = error
  THEN [handled |-> TRUE, pushed |-> <<>>, output |-> output, error |-> error]
  ELSE LET err == IF error.kind = "VMInterruptSignal"
                  THEN [error EXCEPT !.toolCall =
                          [name |-> tool.name, inputSchema |-> tool.input,
                           outputSchema |-> tool.output, input |-> input]]
                  ELSE error
       IN IF err.kind = "ThinkSignal"
          THEN [handled |-> TRUE, pushed |-> <<SignalTrace(call, "think_signal")>>,
                output |-> err, error |-> err]
          ELSE IF err.kind = "ExecuteSignal"
          THEN [handled |-> TRUE, pushed |-> <<SignalTrace(call, "execute_signal")>>,
                output |-> err, error |-> err]
          ELSE [handled |-> FALSE, pushed |-> <<>>, output |-> output, error |-> err]

\* The wrapper's locals after tool.execute returned or resolved with res.
onResult(res) ==
  [pushed |-> <<>>, success |-> TRUE, output |-> res, error |-> Undefined, caught |-> Undefined]

\* The wrapper's locals after the catch block, or the .catch callback, ran on
\* err: success and error are set only when handleSignals returns false.
onError(call, tool, input, err) ==
  LET h == handleSignals(call, Undefined, err, tool, input)
  IN [pushed |-> h.pushed, success |-> h.handled, output |-> h.output,
      error |-> IF h.handled THEN Undefined ELSE h.error, caught |-> h.error]

\* The locals of the wrapper once the tool has completed with outcome o.
completion(call, tool, input, o) ==
  IF o.how = "return" THEN onResult(o.value) ELSE onError(call, tool, input, o.value)

\* What the caller of the wrapper gets on the synchronous path.
syncReceived(c) ==
  IF ~c.success THEN [how |-> "throw", value |-> c.error]
  ELSE IF isVMSignal(c.output) THEN [how |-> "throw", value |-> c.output]
  ELSE [how |-> "return", value |-> c.output]

\* What the promise the wrapper returned settles with.
asyncReceived(o, c) ==
  IF o.how = "return" THEN [how |-> "return", value |-> o.value]
  ELSE [how |-> "throw", value |-> c.caught]

\* The names a global tool is bound under in vmContext.
ToolKeys(t) == {Tools[t].name} \cup Tools[t].aliases

\* wrapTool: the wrapper closes over the tool it was built for.
wrapTool(tool) == tool

\* A vmContext with a wrapper of its own for every name, built as for a tool
\* of that name.
vmContext_WrapperPerKey ==
  [key \in UNION {ToolKeys(t) : t \in ToolNames} |->
     wrapTool([Tools[CHOOSE t \in ToolNames : key \in ToolKeys(t)] EXCEPT !.name = key])]

\* vmContext: one wrapper per global tool, bound under its name and aliases.
vmContext ==
  [key \in UNION {ToolKeys(t) : t \in ToolNames} |->
     wrapTool(Tools[CHOOSE t \in ToolNames : key \in ToolKeys(t)])]

\* The record executeIteration returned for the cycle, if it has: it holds
\* the traces array of the cycle, not a copy of it.
CycleRecord == Len(iterations) - cyclePushed + 1

\* traces.push(...) from a wrapper of this cycle.
pushTraces(ts) ==
  /\ traces' = traces \o ts
  /\ iterations' = IF cyclePushed > 0
                   THEN [iterations EXCEPT ![CycleRecord].traces = @ \o ts]
                   ELSE iterations

\* Everything of the run a wrapper leaves alone.
runVarsButTraces ==
  <<loop, iteration, partialExecutionMessages, injectedVariables, aborted, pc,
    internalValues, changes, result, llmCalls, vmRuns, snapshots, lastSet, writes,
    cycles, cyclePushed, vmVariables, returned>>

\* One invocation of a wrapper: the name it was called under, the tool and
\* input, what tool.execute did (outcome), the state of the slow-call timer
\* and what the caller of the wrapper received.
Call(key, tool, input, async, state, timer, outcome, received) ==
  [key |-> key, tool |-> tool.name, input |-> input, async |-> async,
   state |-> state, timer |-> timer, outcome |-> outcome, received |-> received]

\* The program calls vmContext[key](input) and the tool completes
\* synchronously with outcome o: the timer is set and cleared, the tool_call
\* trace pushed and the outcome handed to the program in one go.
CallSync(key, input, o) ==
  /\ pc = "exec"
  /\ Len(calls) < MaxCalls
  /\ LET tool == vmContext[key]
         call == Len(calls) + 1
         c == completion(call, tool, input, o)
     IN /\ executions' = Append(executions, <<tool.name, input>>)
        /\ pushTraces(c.pushed \o
             <<ToolCallTrace(call, tool, input, c.output, c.error, c.success)>>)
        /\ calls' = Append(calls,
             Call(key, tool, input, FALSE, "settled", "cleared", o, syncReceived(c)))
  /\ UNCHANGED <<runVarsButTraces, instance, lastShapeOp>>
  /\ UNCHANGED <<snapshotVars, truncatorVars, generateVars, budgetVars, hookVars>>

\* A CallAsync that hands the tool the parsed input.
CallAsync_ParsedInput(key, input) ==
  /\ pc = "exec"
  /\ Len(calls) < MaxCalls
  /\ LET tool == vmContext[key]
     IN /\ executions' = Append(executions, <<tool.name, getToolInput(tool, input)>>)
        /\ calls' = Append(calls, Call(key, tool, input, TRUE, "pending", "armed", Pending, Pending))
  /\ UNCHANGED <<runVarsButTraces, traces, iterations, instance, lastShapeOp>>
  /\ UNCHANGED <<snapshotVars, truncatorVars, generateVars, budgetVars, hookVars>>

\* The program calls vmContext[key](input) and tool.execute returns a
\* promise: the timer is armed and the chained promise handed to the program.
CallAsync(key, input) ==
  /\ pc = "exec"
  /\ Len(calls) < MaxCalls
  /\ LET tool == vmContext[key]
     IN /\ executions' = Append(executions, <<tool.name, input>>)
        /\ calls' = Append(calls, Call(key, tool, input, TRUE, "pending", "armed", Pending, Pending))
  /\ UNCHANGED <<runVarsButTraces, traces, iterations, instance, lastShapeOp>>
  /\ UNCHANGED <<snapshotVars, truncatorVars, generateVars, budgetVars, hookVars>>

\* The timer of call i fires: the tool_slow trace.
TimerFires(i) ==
  /\ i \in 1..Len(calls)
  /\ calls[i].timer = "armed"
  /\ pushTraces(<<ToolSlowTrace(i, Tools[calls[i].tool], calls[i].input)>>)
  /\ calls' = [calls EXCEPT ![i].timer = "fired"]
  /\ UNCHANGED <<runVarsButTraces, executions, instance, lastShapeOp>>
  /\ UNCHANGED <<snapshotVars, truncatorVars, generateVars, budgetVars, hookVars>>

\* A Settle whose trace takes the tool and the input from the call made last,
\* as if the invocations of a wrapper shared their locals.
Settle_LastInput(i, o) ==
  /\ i \in 1..Len(calls)
  /\ calls[i].state = "pending"
  /\ LET last == calls[Len(calls)]
         tool == Tools[last.tool]
         c == completion(i, tool, last.input, o)
     IN /\ pushTraces(c.pushed \o
             <<ToolCallTrace(i, tool, last.input, c.output, c.error, c.success)>>)
        /\ calls' = [calls EXCEPT ![i].state = "settled",
                                  ![i].timer = IF @ = "armed" THEN "cleared" ELSE @,
                                  ![i].outcome = o,
                                  ![i].received = asyncReceived(o, c)]
  /\ UNCHANGED <<runVarsButTraces, executions, instance, lastShapeOp>>
  /\ UNCHANGED <<snapshotVars, truncatorVars, generateVars, budgetVars, hookVars>>

\* A Settle whose .finally does not clear the timer.
Settle_NoClear(i, o) ==
  /\ i \in 1..Len(calls)
  /\ calls[i].state = "pending"
  /\ LET tool == Tools[calls[i].tool]
         c == completion(i, tool, calls[i].input, o)
     IN /\ pushTraces(c.pushed \o
             <<ToolCallTrace(i, tool, calls[i].input, c.output, c.error, c.success)>>)
        /\ calls' = [calls EXCEPT ![i].state = "settled",
                                  ![i].outcome = o,
                                  ![i].received = asyncReceived(o, c)]
  /\ UNCHANGED <<runVarsButTraces, executions, instance, lastShapeOp>>
  /\ UNCHANGED <<snapshotVars, truncatorVars, generateVars, budgetVars, hookVars>>

\* The promise of call i settles with outcome o: .then or .catch, then
\* .finally clears the timer and pushes the tool_call trace.
Settle(i, o) ==
  /\ i \in 1..Len(calls)
  /\ calls[i].state = "pending"
  /\ LET tool == Tools[calls[i].tool]
         c == completion(i, tool, calls[i].input, o)
     IN /\ pushTraces(c.pushed \o
             <<ToolCallTrace(i, tool, calls[i].input, c.output, c.error, c.success)>>)
        /\ calls' = [calls EXCEPT ![i].state = "settled",
                                  ![i].timer = IF @ = "armed" THEN "cleared" ELSE @,
                                  ![i].outcome = o,
                                  ![i].received = asyncReceived(o, c)]
  /\ UNCHANGED <<runVarsButTraces, executions, instance, lastShapeOp>>
  /\ UNCHANGED <<snapshotVars, truncatorVars, generateVars, budgetVars, hookVars>>

\* The program assigns to a member of the instance it does not have: the
\* member is added only if the instance is extensible.
AddMember(name) ==
  /\ pc = "exec"
  /\ name \notin instance.members
  /\ lastShapeOp' = [op |-> "add", name |-> name, done |-> instance.extensible]
  /\ instance' = IF instance.extensible
                 THEN [instance EXCEPT !.members = @ \cup {name}]
                 ELSE instance
  /\ UNCHANGED <<runVarsButTraces, traces, iterations, calls, executions>>
  /\ UNCHANGED <<snapshotVars, truncatorVars, generateVars, budgetVars, hookVars>>

\* The program deletes a member of the instance: the member is removed only
\* if it is configurable.
DeleteMember(name) ==
  /\ pc = "exec"
  /\ name \in instance.members
  /\ lastShapeOp' = [op |-> "delete", name |-> name, done |-> instance.configurable]
  /\ instance' = IF instance.configurable
                 THEN [instance EXCEPT !.members = @ \ {name}]
                 ELSE instance
  /\ UNCHANGED <<runVarsButTraces, traces, iterations, calls, executions>>
  /\ UNCHANGED <<snapshotVars, truncatorVars, generateVars, budgetVars, hookVars>>

\* runAsyncFunction has just been called in the first cycle of a run.
SandboxInit ==
  /\ LET ctx == createContext(1) IN
       /\ loop = ctx.loop
       /\ iterations = ctx.iterations
       /\ partialExecutionMessages = ctx.partialExecutionMessages
       /\ injectedVariables = ctx.injectedVariables
  /\ iteration = 1
  /\ aborted = FALSE
  /\ pc = "exec"
  /\ traces = <<LlmCallTrace>>
  /\ internalValues = DeclaredValues
  /\ changes = <<>>
  /\ result = NoResult
  /\ llmCalls = 1
  /\ vmRuns = 1
  /\ snapshots = 0
  /\ lastSet = NoSet
  /\ writes = 0
  /\ cycles = 1
  /\ cyclePushed = 0
  /\ vmVariables = EmptyVars
  /\ returned = <<>>
  /\ consumed = "no"
  /\ resumes = 0
  /\ usageErrors = 0
  /\ TruncatorIdle
  /\ SandboxIdle
  /\ GenerateIdle
  /\ BudgetIdle
  /\ HookIdle

\* The program and what it left behind, up to the return of the run.
SandboxNext ==
  \/ \E key \in DOMAIN vmContext, input \in ToolInputs, o \in Outcomes :
       CallSync(key, input, o)
  \/ \E key \in DOMAIN vmContext, input \in ToolInputs : CallAsync(key, input)
  \/ \E i \in 1..MaxCalls : TimerFires(i)
  \/ \E i \in 1..MaxCalls, o \in Outcomes : Settle(i, o)
  \/ \E signal \in {"none", "VMInterruptSignal"} : ExecSuccess(signal, EmptyVars)
  \/ ExecCodeExecutionError(EmptyVars)
  \/ AfterIteration

SandboxSpec == SandboxInit /\ [][SandboxNext]_vars

\* The program and the instance of the declared object: property writes and
\* attempts to change the set of members.
InstanceNext ==
  \/ \E p \in PropNames, v \in Values : PropertySet(p, v)
  \/ \E name \in {"extra", "x"} : AddMember(name)
  \/ \E name \in {"count", "save"} : DeleteMember(name)

InstanceSpec == SandboxInit /\ [][InstanceNext]_vars

----------------------------------------------------------------------------
\* Concurrent tool calls: a program has started several asynchronous tool
\* calls without awaiting any of them, and their promises settle in any order.

\* The largest number of calls a program has pending at once.
MaxPending == 2

\* What the promise of a concurrent call settles with.
ConcurrentOutcomes ==
  {o \in Outcomes : o.how = "return" \/ o.value.kind \in {"Error", "ThinkSignal"}}

\* The calls of a program that called the wrappers under keys with inputs.
PendingCalls(keys, inputs) ==
  [i \in 1..Len(keys) |->
     Call(keys[i], vmContext[keys[i]], inputs[i], TRUE, "pending", "armed", Pending, Pending)]

\* The program of the first cycle has started its calls, as after
\* Promise.all([...]) over calls of the wrappers.
ConcurrentInit ==
  /\ LET ctx == createContext(1) IN
       /\ loop = ctx.loop
       /\ iterations = ctx.iterations
       /\ partialExecutionMessages = ctx.partialExecutionMessages
       /\ injectedVariables = ctx.injectedVariables
  /\ iteration = 1
  /\ aborted = FALSE
  /\ pc = "exec"
  /\ traces = <<LlmCallTrace>>
  /\ internalValues = DeclaredValues
  /\ changes = <<>>
  /\ result = NoResult
  /\ llmCalls = 1
  /\ vmRuns = 1
  /\ snapshots = 0
  /\ lastSet = NoSet
  /\ writes = 0
  /\ cycles = 1
  /\ cyclePushed = 0
  /\ vmVariables = EmptyVars
  /\ returned = <<>>
  /\ consumed = "no"
  /\ resumes = 0
  /\ usageErrors = 0
  /\ TruncatorIdle
  /\ GenerateIdle
  /\ BudgetIdle
  /\ HookIdle
  /\ instance = buildInstance
  /\ lastShapeOp = NoShapeOp
  /\ \E n \in 1..MaxPending :
       \E keys \in [1..n -> DOMAIN vmContext], inputs \in [1..n -> ToolInputs] :
         /\ calls = PendingCalls(keys, inputs)
         /\ executions = [i \in 1..n |-> <<vmContext[keys[i]].name, inputs[i]>>]

ConcurrentNext ==
  \E i \in 1..MaxPending, o \in ConcurrentOutcomes : Settle(i, o)

ConcurrentSpec == ConcurrentInit /\ [][ConcurrentNext]_vars

----------------------------------------------------------------------------
\* The model call of a cycle: the truncated messages are filtered and handed
\* to cognitive.generateContent.

\* Bound on the length of a message's content.
MaxContent == 2

\* The characters of a content: " " stands for any whitespace character, "a"
\* for any other.
Chars == {" ", "a"}

Contents == UNION {[1..n -> Chars] : n \in 0..MaxContent}

Roles == {"system", "user", "assistant"}

ChatMessage(role, content) == [role |-> role, content |-> content]

\* What truncateWrappedContent can return for the messages of the context.
TruncatedLists ==
  UNION {[1..n -> {ChatMessage(r, c) : r \in Roles, c \in Contents}] : n \in 0..MaxMessages}

RECURSIVE trimStart(_)
trimStart(c) == IF c = <<>> \/ Head(c) # " " THEN c ELSE trimStart(Tail(c))

RECURSIVE trimEnd(_)
trimEnd(c) ==
  IF c = <<>> \/ c[Len(c)] # " " THEN c ELSE trimEnd(SubSeq(c, 1, Len(c) - 1))

\* String.prototype.trim
trim(c) == trimEnd(trimStart(c))

\* A filter that drops only the messages of length 0.
keepMessage_NoTrim(x) == Len(x.content) > 0

\* x.content.trim().length > 0
keepMessage(x) == Len(trim(x.content)) > 0

\* messages.find(x => x.role === 'system')?.content
findSystemPrompt(ms) ==
  LET found == {i \in 1..Len(ms) : ms[i].role = "system"}
  IN IF found = {} THEN NoPrompt
     ELSE ms[CHOOSE i \in found : \A j \in found : i <= j].content

\* The messages argument: the user and assistant messages, as text.
RECURSIVE textMessages(_)
textMessages(ms) ==
  IF ms = <<>> THEN <<>>
  ELSE IF Head(ms).role \in {"user", "assistant"}
       THEN <<[role |-> IF Head(ms).role = "user" THEN "user" ELSE "assistant",
               type |-> "text", content |-> Head(ms).content]>>
            \o textMessages(Tail(ms))
       ELSE textMessages(Tail(ms))

\* The first model call of a run is about to be made, truncateWrappedContent
\* having returned truncated.
GenerateInit ==
  /\ LET ctx == createContext(1) IN
       /\ loop = ctx.loop
       /\ iterations = ctx.iterations
       /\ partialExecutionMessages = ctx.partialExecutionMessages
       /\ injectedVariables = ctx.injectedVariables
  /\ iteration = 1
  /\ aborted = FALSE
  /\ pc = "llm"
  /\ traces = <<>>
  /\ internalValues = DeclaredValues
  /\ changes = <<>>
  /\ result = NoResult
  /\ llmCalls = 1
  /\ vmRuns = 0
  /\ snapshots = 0
  /\ lastSet = NoSet
  /\ writes = 0
  /\ cycles = 1
  /\ cyclePushed = 0
  /\ vmVariables = EmptyVars
  /\ returned = <<>>
  /\ consumed = "no"
  /\ resumes = 0
  /\ usageErrors = 0
  /\ TruncatorIdle
  /\ SandboxIdle
  /\ truncated \in TruncatedLists
  /\ sentMessages = <<>>
  /\ systemPrompt = NoPrompt
  /\ generated = 0
  /\ BudgetIdle
  /\ HookIdle

\* The filter on the truncated messages and the call of
\* cognitive.generateContent, which returns a response.
GenerateContent ==
  /\ pc = "llm"
  /\ LET ms == SelectSeq(truncated, keepMessage)
     IN /\ systemPrompt' = findSystemPrompt(ms)
        /\ sentMessages' = textMessages(ms)
  /\ generated' = generated + 1
  /\ traces' = Append(traces, LlmCallTrace)
  /\ pc' = "onIterationStart"
  /\ UNCHANGED <<loop, iteration, iterations, partialExecutionMessages, injectedVariables,
                 aborted, internalValues, changes, result, llmCalls, vmRuns, snapshots,
                 lastSet, writes, cycles, cyclePushed, vmVariables, returned, truncated>>
  /\ UNCHANGED <<snapshotVars, truncatorVars, sandboxVars, budgetVars, hookVars>>

GenerateNext == GenerateContent

GenerateSpec == GenerateInit /\ [][GenerateNext]_vars

----------------------------------------------------------------------------
\* The token budget of a cycle: the response-length reserve of
\* getModelOutputLimit and the token limit handed to truncateWrappedContent.
\* Token quantities other than the context window are counted in tenths of a
\* token, so that RESPONSE_LENGTH_BUFFER.PERCENTAGE * inputLength is a whole
\* number of them.

\* The largest context window considered, in tokens.
MaxWindow == 200000

\* RESPONSE_LENGTH_BUFFER
MIN_TOKENS == 1000
MAX_TOKENS == 16000

\* 1 / RESPONSE_LENGTH_BUFFER.PERCENTAGE, the tenths in a token.
PerToken == 10

\* A clamp without the upper bound.
clamp_NoUpper(number, lower, upper) == IF number < lower THEN lower ELSE number

\* clamp of lodash
clamp(number, lower, upper) ==
  IF number < lower THEN lower ELSE IF number > upper THEN upper ELSE number

\* PERCENTAGE * inputLength, in tenths of a token
percentage(inputLength) == (inputLength * PerToken) \div 10

\* getModelOutputLimit, in tenths of a token
getModelOutputLimit(inputLength) ==
  clamp(percentage(inputLength), MIN_TOKENS * PerToken, MAX_TOKENS * PerToken)

\* A cycle is about to compute its budget, for some context window.
BudgetInit ==
  /\ RunInit
  /\ loop = 1
  /\ TruncatorIdle
  /\ SandboxIdle
  /\ GenerateIdle
  /\ HookIdle
  /\ modelLimit \in 0..MaxWindow
  /\ responseLengthBuffer = 0
  /\ tokenBudget = 0

\* responseLengthBuffer = getModelOutputLimit(modelLimit), and the tokenLimit
\* argument modelLimit - responseLengthBuffer.
ComputeBudget ==
  /\ responseLengthBuffer = 0
  /\ responseLengthBuffer' = getModelOutputLimit(modelLimit)
  /\ tokenBudget' = modelLimit * PerToken - getModelOutputLimit(modelLimit)
  /\ UNCHANGED <<modelLimit, snapshotVars, truncatorVars, sandboxVars, generateVars, hookVars>>
  /\ UNCHANGED <<loop, iteration, iterations, partialExecutionMessages, injectedVariables,
                 aborted, pc, traces, internalValues, changes, result, llmCalls, vmRuns,
                 snapshots, lastSet, writes, cycles, cyclePushed, vmVariables, returned>>

BudgetNext == ComputeBudget

BudgetSpec == BudgetInit /\ [][BudgetNext]_vars

----------------------------------------------------------------------------
\* The hooks of the caller: onIterationStart and onIterationEnd return or
\* throw while executeContext awaits them.

\* A try around the hook that lets its exception through.
hookSettled_Rethrows(threw) == IF threw THEN "throw" ELSE "continue"

\* try { await hook?.(...) } catch { }: the awaiting code continues whether
\* the hook returned or threw.
hookSettled(threw) == "continue"

\* How the hooks of the cycle in progress have settled.
hooksOfCycle == IF hookLog.cycle = cycles THEN hookLog ELSE NoHooks(cycles)

\* The state of the run proper.
runVars == <<runVarsButTraces, traces, iterations>>

\* The hook awaited at pc settles, by returning or by throwing.
HookSettles(threw) ==
  /\ pc \in {"onIterationStart", "onIterationEnd"}
  /\ hooksOfCycle[pc] = "pending"
  /\ hookLog' = [hooksOfCycle EXCEPT ![pc] = IF threw THEN "threw" ELSE "returned"]
  /\ IF hookSettled(threw) = "continue"
     THEN UNCHANGED runVars
     ELSE /\ Throw("hook_failure")
          /\ UNCHANGED <<loop, iteration, partialExecutionMessages, injectedVariables,
                         aborted, traces, internalValues, changes, llmCalls, vmRuns,
                         snapshots, lastSet, writes, cycles, vmVariables>>
  /\ UNCHANGED <<snapshotVars, truncatorVars, sandboxVars, generateVars, budgetVars>>

\* A run whose hooks return or throw; the programs write no property.
HookNext ==
  \/ \E threw \in BOOLEAN : HookSettles(threw)
  \/ Abort
  \/ AbortedAtStart
  \/ LoopExceeded
  \/ StartIteration
  \/ LlmFails
  \/ LlmReturns
  \/ PrepareExecution
  \/ ExecInvalidCode
  \/ \E explicit \in BOOLEAN, variables \in VarChoices, context \in ContextChoices :
       ExecThink(explicit, variables, context)
  \/ \E signal \in {"none", "VMInterruptSignal"}, variables \in VarChoices :
       ExecSuccess(signal, variables)
  \/ \E variables \in VarChoices : ExecCodeExecutionError(variables)
  \/ ExecThrows
  \/ AfterIteration

HookSpec == Init /\ [][HookNext]_vars

\* A run whose programs write properties and end by Think, by a return or by
\* a failure of their code; no hook is given and the programs have no
\* variables.
BindingNext ==
  \/ LoopExceeded
  \/ StartIteration
  \/ LlmReturns
  \/ PrepareExecution
  \/ \E p \in PropNames, v \in Values : PropertySet(p, v)
  \/ ExecThink(TRUE, EmptyVars, EmptyVars)
  \/ ExecSuccess("none", EmptyVars)
  \/ ExecCodeExecutionError(EmptyVars)
  \/ AfterIteration

BindingSpec == Init /\ [][BindingNext]_vars

----------------------------------------------------------------------------
\* Properties of the run loop.

Done == pc = "done"

RecoverableFailure(rec) ==
  rec.status = "error" /\ rec.error \in {"InvalidCodeError", "CodeExecutionError"}

NumRecoverable == Cardinality({i \in 1..Len(iterations) : RecoverableFailure(iterations[i])})

\* Every model response of the run was executed and every execution ended as
\* Invalid-code or Code-execution failure; the run was not cancelled.
AlwaysRecoverableFailure ==
  /\ ~aborted
  /\ vmRuns = llmCalls
  /\ NumRecoverable = vmRuns

\* C1 as stated: a run with budget N, all of whose iterations are recoverable
\* failures, ends in error after exactly N records, the last record of the
\* returned list being the Loop-exceeded failure.
C1_Original ==
  (Done /\ AlwaysRecoverableFailure) =>
     /\ result.status = "error"
     /\ Len(iterations) = loop
     /\ iterations[Len(iterations)].error = "LoopExceededError"

\* C1 amended: such a run ends in error after exactly N records and N model
\* calls; the Loop-exceeded failure is the error of the returned outcome, while
\* every one of the N records, the last included, is a recoverable failure.
C1_Theorem ==
  (Done /\ AlwaysRecoverableFailure) =>
     /\ result.status = "error"
     /\ result.error = "LoopExceededError"
     /\ Len(iterations) = loop
     /\ llmCalls = loop
     /\ \A i \in 1..Len(iterations) : RecoverableFailure(iterations[i])

C1_Witness ==
  /\ Done /\ AlwaysRecoverableFailure
  /\ loop >= 2
  /\ Len(iterations) = loop
  /\ iterations[1].error = "InvalidCodeError"
  /\ iterations[loop].error = "CodeExecutionError"

\* C2 as stated: in every reachable state, the state in which Loop-exceeded is
\* raised included, the iteration counter is at most the loop budget.
C2_Original == iteration <= loop

\* C2 amended: the counter is at most the budget in every state but the one
\* reached by raising Loop-exceeded, where it is the budget plus one.
C2_Theorem ==
  /\ iteration <= loop + 1
  /\ iteration > loop => (Done /\ result.error = "LoopExceededError")
  /\ result.error = "LoopExceededError" => iteration = loop + 1

C2_Witness == Done /\ result.error = "LoopExceededError" /\ iteration = loop + 1 /\ loop >= 2

----------------------------------------------------------------------------
\* Properties of the property setter.

SetterCalled == lastSet.outcome # "none"

\* C3 as stated: every assignment to a read-only property, a value deep-equal
\* to the stored one included, fails with an assignment rejection and leaves
\* the stored value unchanged.
C3_Original ==
  (SetterCalled /\ ~Properties[lastSet.prop].writable) =>
     /\ IsRejected(lastSet.outcome)
     /\ internalValues[lastSet.prop] = lastSet.before

\* C3 amended: an assignment to a read-only property of a value that is not
\* deep-equal to the stored one fails with an assignment rejection; one of a
\* deep-equal value returns silently; in both cases the stored value stays the
\* declared one and no property trace or mutation is recorded for it.
C3_Theorem ==
  /\ (SetterCalled /\ ~Properties[lastSet.prop].writable) =>
        /\ lastSet.outcome = IF isEqual(lastSet.value, lastSet.before)
                             THEN "noop" ELSE "AssignmentError: read-only"
        /\ internalValues[lastSet.prop] = lastSet.before
  /\ \A p \in PropNames : ~Properties[p].writable =>
        /\ internalValues[p] = Properties[p].value
        /\ \A i \in 1..Len(traces) : traces[i].property # p
        /\ \A i \in 1..Len(changes) : changes[i].property # p

C3_Witness ==
  /\ SetterCalled
  /\ lastSet.prop = "id"
  /\ lastSet.outcome = "AssignmentError: read-only"
  /\ ~isEqual(lastSet.value, lastSet.before)

\* C4: an assignment whose value is deep-equal to the stored one is a no-op:
\* the setter returns silently and the stored values, the cycle's traces and
\* its mutations are what they were.
C4_Theorem ==
  [][(writes' = writes + 1 /\ isEqual(lastSet'.value, internalValues[lastSet'.prop])) =>
        /\ lastSet'.outcome = "noop"
        /\ internalValues' = internalValues
        /\ traces' = traces
        /\ changes' = changes]_vars

\* A writable property was assigned an object equal in content to the stored
\* one but not identical to it, after a committed write in the same cycle.
C4_Witness ==
  /\ lastSet.outcome = "noop"
  /\ Properties[lastSet.prop].writable
  /\ lastSet.value # lastSet.before
  /\ isEqual(lastSet.value, lastSet.before)
  /\ internalValues[lastSet.prop] = lastSet.before
  /\ Len(changes) = 1

\* C5: an assignment of a changed value to a writable property is committed
\* exactly when the value passes the property's schema (what is stored, traced
\* and recorded as the mutation's 'after' is the parsed value); when it does
\* not pass, the setter throws an AssignmentError and the stored values, the
\* traces and the mutations are what they were.
C5_Theorem ==
  [][(/\ writes' = writes + 1
      /\ Properties[lastSet'.prop].writable
      /\ ~isEqual(lastSet'.value, internalValues[lastSet'.prop])) =>
        LET p == lastSet'.prop
            parsed == safeParse(Properties[p].type, lastSet'.value)
        IN IF parsed.success
           THEN /\ lastSet'.outcome = "commit"
                /\ internalValues' = [internalValues EXCEPT ![p] = parsed.data]
                /\ traces' = Append(traces, PropertyTrace(p, parsed.data))
                /\ \E i \in 1..Len(changes') :
                      changes'[i] = Mutation(p, Properties[p].value, parsed.data)
           ELSE /\ lastSet'.outcome = "AssignmentError: invalid"
                /\ internalValues' = internalValues
                /\ traces' = traces
                /\ changes' = changes]_vars

\* A write that failed validation after a committed write to the same
\* property: the committed value is still the stored one.
C5_Witness ==
  /\ lastSet.outcome = "AssignmentError: invalid"
  /\ lastSet.prop = "count"
  /\ internalValues["count"] = lastSet.before
  /\ lastSet.before # Properties["count"].value
  /\ Len(changes) = 1

\* C6 as stated: every cycle that starts (executeIteration is called) appends
\* exactly one record, also when it ends by cancellation, by Loop-exceeded or
\* by an escaping exception.
C6_Original ==
  (cycles > 0 /\ pc \in {"top", "done"}) => cyclePushed = 1

\* C6 amended: a cycle in which executeIteration is called appends exactly one record when it ends by
\* looping, by a success or interrupted outcome or by an escaping exception;
\* none when it ends by Loop-exceeded; and two when the abort check after the
\* iteration fires, the iteration's own record followed by a synthesized
\* 'aborted' error record.
C6_Theorem ==
  /\ cyclePushed \in 0..2
  /\ Len(iterations) >= cyclePushed
  /\ (cycles > 0 /\ pc = "top") => cyclePushed = 1
  /\ (cycles > 0 /\ pc = "onIterationEnd") => cyclePushed = 1
  /\ (cycles > 0 /\ Done) =>
        cyclePushed = CASE result.error = "LoopExceededError" -> 0
                        [] result.error = "aborted" -> 2
                        [] OTHER -> 1
  /\ cyclePushed = 2 =>
        /\ iterations[Len(iterations)] = SyntheticRecord("aborted")
        /\ iterations[Len(iterations) - 1].traces # <<>>

\* A cycle whose iteration succeeded and which ended by cancellation.
C6_Witness ==
  /\ Done /\ cyclePushed = 2
  /\ iterations[Len(iterations) - 1].status = "success"

\* The errors that escape executeIteration without being classified.
Unclassified == {"llm_failure", "no_output", "vm_failure"}

\* C7: when an unclassified exception escapes an iteration the run ends with
\* status error and that exception, and the last record of the returned list
\* is an error record carrying it; in every run that ends in error each model
\* call made has a record of its own in the returned list.
C7_Theorem ==
  /\ (Done /\ result.error \in Unclassified) =>
        /\ result.status = "error"
        /\ Len(iterations) = llmCalls
        /\ iterations[Len(iterations)].status = "error"
        /\ iterations[Len(iterations)].error = result.error
  /\ (Done /\ result.status = "error") => Len(iterations) >= llmCalls
  /\ \A i \in 1..Len(iterations) :
        iterations[i].error \in Unclassified => (Done /\ i = Len(iterations))

\* A run whose second program made the sandbox fail unclassified.
C7_Witness ==
  /\ Done
  /\ result.error = "vm_failure"
  /\ Len(iterations) = 2
  /\ iterations[2] = SyntheticRecord("vm_failure")
  /\ iterations[1].status = "partial"

\* C8: a cycle that finds the budget used up ends the run with status error
\* and the Loop-exceeded error without calling the model client or the sandbox
\* and leaves the record list as it was; once the run has ended nothing is
\* called and nothing changes any more.
C8_Theorem ==
  [][/\ (pc = "top" /\ ~aborted /\ iteration >= loop) =>
          /\ pc' = "done"
          /\ result' = Result("error", "LoopExceededError", FALSE)
          /\ iterations' = iterations
          /\ llmCalls' = llmCalls
          /\ vmRuns' = vmRuns
     /\ pc = "done" =>
          /\ pc' = "done"
          /\ iterations' = iterations
          /\ result' = result
          /\ llmCalls' = llmCalls
          /\ vmRuns' = vmRuns
     /\ result'.error = "LoopExceededError" => (pc = "done" \/ iteration >= loop)]_vars

\* Loop-exceeded after a Think iteration and a failed one.
C8_Witness ==
  /\ Done
  /\ result.error = "LoopExceededError"
  /\ Len(iterations) = 2
  /\ iterations[1].status = "partial"
  /\ iterations[2].status = "error"
  /\ llmCalls = 2

LastRecord == iterations[Len(iterations)]

\* C9: with the signal not aborted, the run returns interrupted exactly when
\* the record just pushed has status success and a VMInterruptSignal, and
\* success exactly when it has status success without one; createSnapshot is
\* called once in the interrupted outcome and never otherwise; a run that has
\* returned either outcome has stopped.
C9_Theorem ==
  /\ (pc \in {"top", "done"} /\ ~aborted /\ Len(iterations) > 0) =>
        /\ result.status = "interrupted" <=>
              (LastRecord.status = "success" /\ LastRecord.signal = "VMInterruptSignal")
        /\ result.status = "success" <=>
              (LastRecord.status = "success" /\ LastRecord.signal # "VMInterruptSignal")
  /\ result.status \in {"success", "interrupted"} =>
        /\ Done /\ ~aborted /\ Len(iterations) > 0
        /\ ~ENABLED Next
  /\ snapshots = IF result.status = "interrupted" THEN 1 ELSE 0
  /\ result.snapshot <=> result.status = "interrupted"

C9_Witness ==
  /\ Done /\ ~aborted
  /\ result.status = "interrupted"
  /\ result.snapshot
  /\ snapshots = 1
  /\ Len(iterations) = 2
  /\ LastRecord.signal = "VMInterruptSignal"

\* C10: a signal found aborted by the check at the start of a cycle ends the
\* run with the aborted error before any model call of that cycle; found by
\* the check before execution it yields an aborted error record without a
\* sandbox run; found by the check after an iteration, whatever that
\* iteration's status or signal, it ends the run with the aborted error.  An
\* aborted signal stays aborted, and a run never returns success or
\* interrupted with its signal aborted.
C10_Theorem ==
  /\ [](result.status \in {"success", "interrupted"} => ~aborted)
  /\ []((aborted /\ llmCalls = 0) => pc \in {"top", "done"})
  /\ [][/\ aborted => aborted'
        /\ (aborted /\ pc = "top" /\ pc' # pc) =>
              /\ pc' = "done"
              /\ result' = Result("error", "aborted", FALSE)
              /\ llmCalls' = llmCalls
        /\ (aborted /\ pc = "onIterationStart" /\ pc' # pc) =>
              /\ pc' = "onIterationEnd"
              /\ vmRuns' = vmRuns
              /\ iterations'[Len(iterations')].status = "error"
              /\ iterations'[Len(iterations')].error = "aborted"
        /\ (aborted /\ pc = "onIterationEnd" /\ pc' # pc) =>
              /\ pc' = "done"
              /\ result' = Result("error", "aborted", FALSE)]_vars

\* The signal was aborted while onIterationEnd ran for an iteration that had
\* raised Suspend-for-interrupt.
C10_Witness ==
  /\ Done /\ aborted
  /\ result = Result("error", "aborted", FALSE)
  /\ Len(iterations) = 2
  /\ iterations[1].status = "success"
  /\ iterations[1].signal = "VMInterruptSignal"
  /\ snapshots = 0

----------------------------------------------------------------------------
\* Think iterations and injected variables.

\* The run is between a Think iteration and the next model call.
AfterThink ==
  /\ pc = "top"
  /\ Len(iterations) > 0
  /\ LastRecord.status = "partial"
  /\ LastRecord.signal = "ThinkSignal"

\* C11: after an iteration that ends with a Think outcome (explicit signal or
\* return action 'think') and before the next model call, the injected
\* variables contain every local variable the program computed and every key
\* of the think context payload.
C11_Original ==
  AfterThink =>
    \A k \in Keys :
      /\ vmVariables[k] # 0 => injectedVariables[k] # 0
      /\ LastRecord.context[k] # 0 => injectedVariables[k] = LastRecord.context[k]

----------------------------------------------------------------------------
\* Reset of the counter and of the partial-execution messages.

IsPrefix(s, t) == Len(s) <= Len(t) /\ SubSeq(t, 1, Len(s)) = s

\* The record a step pushes first.
Pushes == Len(iterations') > Len(iterations)
NewRecord == iterations'[Len(iterations) + 1]

\* C12: whenever an iteration ends with status success (plain or
\* Suspend-for-interrupt) the iteration counter is 0 and the
\* partial-execution messages are empty, in the Context returned to the
\* caller too; an iteration with status partial or error never resets the
\* counter and never clears the messages.
C12_Theorem ==
  /\ []((\E i \in 1..Len(iterations) : iterations[i].status = "success") =>
          /\ iteration = 0
          /\ partialExecutionMessages = <<>>)
  /\ [](result.status \in {"success", "interrupted"} =>
          /\ iteration = 0
          /\ partialExecutionMessages = <<>>)
  /\ [][Pushes =>
          /\ NewRecord.status = "success" =>
               /\ iteration' = 0
               /\ partialExecutionMessages' = <<>>
          /\ NewRecord.status \in {"partial", "error"} =>
               /\ iteration' = iteration
               /\ IsPrefix(partialExecutionMessages, partialExecutionMessages')]_vars

\* A Think iteration left the counter at 1 and two messages behind; the
\* success of the second iteration reset both, and the run returned.
C12_Witness ==
  /\ Done
  /\ result.status = "success"
  /\ Len(iterations) = 2
  /\ iterations[1].status = "partial"
  /\ iterations[2].status = "success"
  /\ iteration = 0
  /\ partialExecutionMessages = <<>>
  /\ llmCalls = 2

----------------------------------------------------------------------------
\* Termination and the budget of model calls.

\* Position inside a cycle, counted down from the model call to the top of
\* the loop.
PcRank == [llm |-> 4, onIterationStart |-> 3, exec |-> 2, onIterationEnd |-> 1, top |-> 0]

\* A measure every step of a run decreases: cycles left, position in the
\* cycle, property writes left, and whether the signal can still be aborted.
Rank ==
  IF Done THEN 0
  ELSE 1 + 5 * (loop + 1 - cycles) + PcRank[pc] + (MaxWrites - writes)
         + (IF aborted THEN 0 ELSE 1)

\* C13: with loop budget N every run terminates provided the model client,
\* the sandbox, the tools and the hooks return, and the model client is
\* invoked at most N times whatever mix of Think, Invalid-code and
\* Code-execution-failure iterations the run has; a Think iteration consumes
\* budget like a failed one. Termination: a run that has not returned can
\* take a step, and every step decreases the natural-number measure Rank.
C13_Theorem ==
  /\ [](llmCalls <= loop)
  /\ []((pc # "done" /\ \A i \in 1..Len(iterations) : iterations[i].status # "success")
          => iteration = llmCalls)
  /\ [](Rank \in Nat)
  /\ [](Done \/ ENABLED Next)
  /\ [][Rank' < Rank]_vars

\* A Think iteration and an Invalid-code iteration used up the budget of two;
\* the third pass threw LoopExceededError before calling the model.
C13_Witness ==
  /\ Done
  /\ loop = 2
  /\ llmCalls = 2
  /\ result.error = "LoopExceededError"
  /\ Len(iterations) = 2
  /\ iterations[1].signal = "ThinkSignal"
  /\ iterations[2].error = "InvalidCodeError"

----------------------------------------------------------------------------
\* The iteration list.

\* C14: the iteration list only grows by appending at its end: at every step
\* the previous list is a prefix of the current one, so no record is removed
\* or reordered, and the list returned in every outcome (success,
\* interrupted, error) is that same full list.
C14_Theorem ==
  /\ [][IsPrefix(iterations, iterations')]_vars
  /\ [](Done => returned = iterations)
  /\ [](~Done => returned = <<>>)

\* An error outcome that returns the Think record of the first iteration
\* followed by the record of the failed second one.
C14_Witness ==
  /\ Done
  /\ result.status = "error"
  /\ Len(iterations) = 2
  /\ returned = iterations
  /\ iterations[1].status = "partial"
  /\ iterations[2].status = "error"
  /\ iterations[2].error \in Unclassified

----------------------------------------------------------------------------
\* A model response without text.

\* C15: if the model client returns a response with no usable text content,
\* the cycle is a hard failure: the sandbox is not executed, no corrective
\* message is added to the partial-execution messages, the model client is
\* not invoked again, and the run ends with status error.
C15_Theorem ==
  /\ [][(pc = "llm" /\ Pushes /\ NewRecord.error = "no_output") =>
          /\ pc' = "done"
          /\ result' = Result("error", "no_output", FALSE)
          /\ Len(iterations') = Len(iterations) + 1
          /\ vmRuns' = vmRuns
          /\ llmCalls' = llmCalls
          /\ partialExecutionMessages' = partialExecutionMessages]_vars
  /\ [](result.error = "no_output" =>
          /\ Done
          /\ vmRuns = llmCalls - 1
          /\ ~ENABLED Next)

\* The second model call of a run returned no text, after a Think iteration.
C15_Witness ==
  /\ Done
  /\ result = Result("error", "no_output", FALSE)
  /\ llmCalls = 2
  /\ vmRuns = 1
  /\ partialExecutionMessages = <<"assistant", "thinking">>
  /\ LastRecord.error = "no_output"

----------------------------------------------------------------------------
\* Mutation diffs.

IsPropertyTrace(t) == t.type = "property"
PropertyTraces(tr) == SelectSeq(tr, IsPropertyTrace)

\* The value property pt[i].property held just before the i-th committed write.
ValueBefore(pt, i) ==
  LET earlier == {j \in 1..(i - 1) : pt[j].property = pt[i].property}
  IN IF earlier = {} THEN Properties[pt[i].property].value
     ELSE pt[CHOOSE j \in earlier : \A k \in earlier : k <= j].value

\* The value of the last committed write to property p.
LastWritten(pt, p) ==
  pt[CHOOSE j \in 1..Len(pt) :
       /\ pt[j].property = p
       /\ \A k \in 1..Len(pt) : pt[k].property = p => k <= j].value

\* C16 as stated: the mutation list of an Iteration Record holds one diff per
\* accepted property write of that iteration: its length equals the number of
\* committed writes (the number of property-write traces), and each diff
\* gives the value immediately before and immediately after that write.
C16_Original ==
  \A r \in 1..Len(iterations) :
    LET pt == PropertyTraces(iterations[r].traces)
        mut == iterations[r].mutations
    IN /\ Len(mut) = Len(pt)
       /\ \A i \in 1..Len(pt) :
            /\ mut[i].property = pt[i].property
            /\ mut[i].before = ValueBefore(pt, i)
            /\ mut[i].after = pt[i].value

\* C16: the mutation list of an Iteration Record holds one diff per property
\* that had a committed write in that iteration: its length is the number of
\* distinct properties written, at most the number of property-write traces,
\* and each diff gives the declared value the binding was built with as
\* before and the value of the last committed write as after.
C16_Theorem ==
  \A r \in 1..Len(iterations) :
    LET pt == PropertyTraces(iterations[r].traces)
        mut == iterations[r].mutations
        written == {pt[i].property : i \in 1..Len(pt)}
    IN /\ Len(mut) = Cardinality(written)
       /\ Len(mut) <= Len(pt)
       /\ {mut[i].property : i \in 1..Len(mut)} = written
       /\ \A i \in 1..Len(mut) :
            /\ mut[i].before = Properties[mut[i].property].value
            /\ mut[i].after = LastWritten(pt, mut[i].property)

\* A record of an iteration that committed two different values to count:
\* two property-write traces, one diff, from the declared value to the second.
C16_Witness ==
  \E r \in 1..Len(iterations) :
    LET pt == PropertyTraces(iterations[r].traces)
        mut == iterations[r].mutations
    IN /\ Len(pt) = 2
       /\ pt[1].property = "count" /\ pt[2].property = "count"
       /\ pt[1].value # pt[2].value
       /\ Len(mut) = 1
       /\ mut[1].before = Properties["count"].value
       /\ mut[1].after = pt[2].value

----------------------------------------------------------------------------
\* Snapshots.

\* C17: a snapshot is consumed at most once: after one resolve or one reject
\* of a snapshot, any further resolve or reject of that snapshot is a usage
\* error and does not re-enter the program or produce further Iteration
\* Records.
C17_Theorem ==
  /\ [](resumes <= snapshots /\ resumes <= 1)
  /\ [](consumed # "no" <=> resumes = 1)
  /\ [][(snapshotStatus \in {"resolved", "rejected"}) =>
          /\ usageErrors' = usageErrors + 1
          /\ resumes' = resumes
          /\ consumed' = consumed
          /\ iterations' = iterations
          /\ vmRuns' = vmRuns
          /\ llmCalls' = llmCalls]_vars

\* A snapshot that was resolved once, and a second call that was refused.
C17_Witness ==
  /\ result.status = "interrupted"
  /\ snapshotStatus = "resolved"
  /\ resumes = 1
  /\ usageErrors = 1

----------------------------------------------------------------------------
\* Truncation.

\* C18: truncation is idempotent on fitting input: applying the Truncation
\* Manager to a message list whose estimated size is within the token limit
\* returns that list unchanged, hence truncating the output of a truncation
\* that met the limit changes nothing.
C18_Theorem ==
  (truncations > 0 /\ EstimatedSize(lastInput) <= tokenLimit) => messages = lastInput

\* A list of two messages that a first truncation cut down to the limit and
\* a second truncation returned as it was.
C18_Witness ==
  /\ truncations = 2
  /\ Len(lastInput) = 2
  /\ EstimatedSize(lastInput) = tokenLimit
  /\ \E i \in 1..Len(lastInput) : lastInput[i].truncated
  /\ \E i \in 1..Len(lastInput) : lastInput[i].content = <<>>
  /\ messages = lastInput

----------------------------------------------------------------------------
\* Recoverable failures.

\* The corrective message synthesized for a recoverable failure.
Corrective(error) ==
  IF error = "InvalidCodeError" THEN "invalid_code" ELSE "execution_error"

\* C20: after an iteration classified as Invalid-code or as Code-execution
\* failure the run does not end: the record has status error, the program
\* and a synthesized corrective message are added to the partial-execution
\* messages so that the next model call sees them, the counter is not reset,
\* and the next cycle starts unless the abort indicator is set or the budget
\* is exhausted.
C20_Theorem ==
  /\ [][(pc = "exec" /\ Pushes
           /\ NewRecord.error \in {"InvalidCodeError", "CodeExecutionError"}) =>
          /\ NewRecord.status = "error"
          /\ Len(iterations') = Len(iterations) + 1
          /\ partialExecutionMessages' =
               partialExecutionMessages \o <<"assistant", Corrective(NewRecord.error)>>
          /\ iteration' = iteration
          /\ result' = NoResult
          /\ pc' = "onIterationEnd"]_vars
  /\ [][(pc = "onIterationEnd" /\ RecoverableFailure(LastRecord) /\ ~aborted /\ pc' # pc) =>
          /\ pc' = "top"
          /\ result' = NoResult
          /\ iteration' = iteration
          /\ partialExecutionMessages' = partialExecutionMessages
          /\ iterations' = iterations]_vars
  /\ []((pc = "top" /\ Len(iterations) > 0 /\ RecoverableFailure(LastRecord)
           /\ ~aborted /\ iteration < loop) => ENABLED StartIteration)
  /\ [][(pc = "top" /\ Len(iterations) > 0 /\ RecoverableFailure(LastRecord)
           /\ ~aborted /\ iteration < loop) =>
          /\ pc' = "llm"
          /\ llmCalls' = llmCalls + 1
          /\ result' = NoResult
          /\ iteration' = iteration + 1
          /\ partialExecutionMessages' = partialExecutionMessages]_vars

\* The second model call of a run is in progress after a Code-execution
\* failure, with the program and the corrective message in front of it.
C20_Witness ==
  /\ pc = "llm"
  /\ llmCalls = 2
  /\ iteration = 2
  /\ Len(iterations) = 1
  /\ LastRecord.status = "error"
  /\ LastRecord.error = "CodeExecutionError"
  /\ partialExecutionMessages = <<"assistant", "execution_error">>
  /\ result = NoResult

----------------------------------------------------------------------------
\* Abort in front of the sandbox.

HasTrace(tr, type) == \E i \in 1..Len(tr) : tr[i].type = type

\* C21: if the abort indicator is set after the model call but before sandbox
\* execution, the generated program is never executed, an error-status record
\* containing an abort_signal trace is produced for that cycle, the
\* partial-execution messages are left unchanged, and the run stops without
\* another model call.
C21_Theorem ==
  /\ [][(aborted /\ pc = "onIterationStart" /\ pc' # pc) =>
          /\ vmRuns' = vmRuns
          /\ Pushes
          /\ Len(iterations') = Len(iterations) + 1
          /\ NewRecord.status = "error"
          /\ HasTrace(NewRecord.traces, "abort_signal")
          /\ partialExecutionMessages' = partialExecutionMessages
          /\ llmCalls' = llmCalls
          /\ pc' = "onIterationEnd"]_vars
  /\ []((\E i \in 1..Len(iterations) : HasTrace(iterations[i].traces, "abort_signal")) =>
          /\ aborted
          /\ pc \in {"onIterationEnd", "done"}
          /\ vmRuns = llmCalls - 1
          /\ llmCalls = cycles
          /\ pc = "done" => result = Result("error", "aborted", FALSE))
  /\ [][(Len(iterations) > 0 /\ HasTrace(LastRecord.traces, "abort_signal")) =>
          /\ pc' = "done"
          /\ vmRuns' = vmRuns
          /\ llmCalls' = llmCalls
          /\ partialExecutionMessages' = partialExecutionMessages]_vars

\* The signal was aborted during the second model call of a run: the run
\* ended with two model calls, one sandbox execution, and the messages the
\* Think iteration of the first cycle had left.
C21_Witness ==
  /\ Done
  /\ llmCalls = 2
  /\ vmRuns = 1
  /\ Len(iterations) = 3
  /\ iterations[1].status = "partial"
  /\ iterations[2].status = "error"
  /\ HasTrace(iterations[2].traces, "abort_signal")
  /\ partialExecutionMessages = <<"assistant", "thinking">>
  /\ result = Result("error", "aborted", FALSE)

----------------------------------------------------------------------------
\* Properties of the tool wrappers.

\* The positions in the cycle's traces of the traces of one type that call i
\* pushed.
TraceIdx(i, type) ==
  {j \in 1..Len(traces) : traces[j].type = type /\ traces[j].call = i}

\* Call i has completed and its tool threw, or rejected with, a value of one
\* of the kinds.
Raised(i, kinds) ==
  /\ calls[i].state = "settled"
  /\ calls[i].outcome.how = "throw"
  /\ calls[i].outcome.value.kind \in kinds

SignalType(kind) == IF kind = "ThinkSignal" THEN "think_signal" ELSE "execute_signal"

\* C22: when a wrapped tool raises a ThinkSignal or an ExecuteSignal, by a
\* synchronous throw or by a rejection, one think_signal or execute_signal
\* trace is pushed, then the one tool_call trace of the call with
\* success = true and no error, and the caller of the wrapper receives that
\* same signal as a throw.
C22_Theorem ==
  \A i \in 1..Len(calls) :
    Raised(i, {"ThinkSignal", "ExecuteSignal"}) =>
      LET signal == calls[i].outcome.value
          signals == TraceIdx(i, SignalType(signal.kind))
          toolCalls == TraceIdx(i, "tool_call")
      IN /\ Cardinality(signals) = 1
         /\ Cardinality(toolCalls) = 1
         /\ \A k \in toolCalls :
              /\ traces[k].success
              /\ traces[k].error = Undefined
              /\ \A j \in signals : j < k
         /\ calls[i].received = [how |-> "throw", value |-> signal]

\* The promise of a tool called under its alias was rejected with an
\* ExecuteSignal, and the wrapper's promise has settled.
C22_Witness ==
  \E i \in 1..Len(calls) :
    /\ Raised(i, {"ExecuteSignal"})
    /\ calls[i].async
    /\ calls[i].key = "find"
    /\ TraceIdx(i, "execute_signal") # {}

\* C23: when a wrapped tool fails with a value that is no signal, by a
\* synchronous throw or by a rejection, exactly one tool_call trace of the
\* call is pushed, with success = false and that error, and the caller of the
\* wrapper receives that same error as a throw.
C23_Original ==
  \A i \in 1..Len(calls) :
    Raised(i, {"Error", "undefined"}) =>
      LET err == calls[i].outcome.value
          toolCalls == TraceIdx(i, "tool_call")
      IN /\ Cardinality(toolCalls) = 1
         /\ \A k \in toolCalls : ~traces[k].success /\ traces[k].error = err
         /\ calls[i].received = [how |-> "throw", value |-> err]

\* The declared tool that has the name or alias key.
Declared(key) == Tools[CHOOSE t \in ToolNames : key \in ToolKeys(t)]

\* C24: a VMInterruptSignal a tool raised leaves the wrapper, on the
\* synchronous and on the promise path, annotated with the pending tool call:
\* the name, input schema and output schema of the tool that raised it and the
\* input the wrapper was called with; so it is whenever the run returns
\* interrupted.
C24_Theorem ==
  \A i \in 1..Len(calls) :
    Raised(i, {"VMInterruptSignal"}) =>
      /\ calls[i].received.how = "throw"
      /\ calls[i].received.value.kind = "VMInterruptSignal"
      /\ calls[i].received.value.toolCall =
           [name |-> Declared(calls[i].key).name,
            inputSchema |-> Declared(calls[i].key).input,
            outputSchema |-> Declared(calls[i].key).output,
            input |-> calls[i].input]

\* The run has returned interrupted after a tool called under its alias
\* rejected with a VMInterruptSignal.
C24_Witness ==
  /\ result.status = "interrupted"
  /\ \E i \in 1..Len(calls) :
       /\ Raised(i, {"VMInterruptSignal"})
       /\ calls[i].async
       /\ calls[i].key = "find"
       /\ calls[i].input = Str(2)
       /\ calls[i].received.value.toolCall.name = "search"

\* C25: a call pushes at most one tool_slow trace, and only before its
\* tool_call trace; a call that has completed, by any path, has pushed its
\* tool_call trace and its timer is no longer armed; a call that completed
\* synchronously has pushed no tool_slow trace.
C25_Theorem ==
  \A i \in 1..Len(calls) :
    /\ Cardinality(TraceIdx(i, "tool_slow")) <= 1
    /\ TraceIdx(i, "tool_slow") # {} <=> calls[i].timer = "fired"
    /\ \A j \in TraceIdx(i, "tool_slow"), k \in TraceIdx(i, "tool_call") : j < k
    /\ calls[i].state = "settled" =>
         /\ calls[i].timer # "armed"
         /\ Cardinality(TraceIdx(i, "tool_call")) = 1
    /\ calls[i].state = "pending" => TraceIdx(i, "tool_call") = {}
    /\ ~calls[i].async => calls[i].timer = "cleared"

\* A call was slow and then its promise was rejected.
C25_Witness ==
  \E i \in 1..Len(calls) :
    /\ calls[i].state = "settled"
    /\ calls[i].outcome.how = "throw"
    /\ calls[i].timer = "fired"
    /\ TraceIdx(i, "tool_slow") # {}

\* C27: each call of a wrapper invokes the implementation of the tool once,
\* with the input the caller gave, whether that input parses or not; a tool
\* that returns makes the wrapper return; the input in the traces of the call
\* is the parsed one when parsing succeeds and the caller's otherwise.
C27_Theorem ==
  /\ Len(executions) = Len(calls)
  /\ \A i \in 1..Len(calls) :
       LET tool == Declared(calls[i].key)
           parsed == safeParse(tool.zInput, calls[i].input)
       IN /\ executions[i] = <<tool.name, calls[i].input>>
          /\ Raised(i, ErrorKinds) \/ calls[i].state = "pending"
               \/ calls[i].received = calls[i].outcome
          /\ \A j \in TraceIdx(i, "tool_call") \cup TraceIdx(i, "tool_slow") :
               traces[j].input = IF parsed.success THEN parsed.data ELSE calls[i].input

\* A tool was called with an input its schema rejects, ran on it and
\* returned.
C27_Witness ==
  \E i \in 1..Len(calls) :
    /\ calls[i].input = Str(0)
    /\ ~safeParse(Declared(calls[i].key).zInput, calls[i].input).success
    /\ executions[i][2] = Str(0)
    /\ calls[i].state = "settled"
    /\ calls[i].received.how = "return"
    /\ TraceIdx(i, "tool_call") # {}

\* Every name of a tool is bound, to the wrapper its own name is bound to,
\* and a call under it completes and is traced as a call under its own name.
SameWrapper ==
  \A t \in ToolNames : \A key \in ToolKeys(t) :
    /\ key \in DOMAIN vmContext
    /\ vmContext[key] = vmContext[Tools[t].name]
    /\ \A input \in ToolInputs, o \in Outcomes :
         LET c == completion(1, vmContext[key], input, o)
             d == completion(1, vmContext[Tools[t].name], input, o)
         IN /\ c = d
            /\ ToolCallTrace(1, vmContext[key], input, c.output, c.error, c.success)
                 = ToolCallTrace(1, vmContext[Tools[t].name], input, d.output, d.error,
                                 d.success)
            /\ ToolSlowTrace(1, vmContext[key], input)
                 = ToolSlowTrace(1, vmContext[Tools[t].name], input)

\* C28: a global tool is bound in the sandbox under its name and under each
\* of its aliases, to one wrapper: under any of these names the same
\* implementation is invoked, the traces are those of a call under the
\* tool's name, with the tool's name in them, and the caller receives the
\* same.
C28_Theorem ==
  /\ SameWrapper
  /\ \A i \in 1..Len(calls) :
       /\ calls[i].tool = Declared(calls[i].key).name
       /\ executions[i][1] = Declared(calls[i].key).name
       /\ \A j \in TraceIdx(i, "tool_call") \cup TraceIdx(i, "tool_slow") :
            traces[j].tool_name = Declared(calls[i].key).name

\* A call through the alias find has run search and pushed its traces.
C28_Witness ==
  \E i \in 1..Len(calls) :
    /\ calls[i].key = "find"
    /\ calls[i].state = "settled"
    /\ executions[i][1] = "search"
    /\ \E j \in TraceIdx(i, "tool_call") : traces[j].tool_name = "search"

\* C26: once a record is in the iteration list, its trace list and its
\* mutation list never change, also when a tool call the program did not
\* await settles, or its timer fires, after the iteration has ended.
C26_Original ==
  [][\A r \in 1..Len(iterations) :
       /\ r <= Len(iterations')
       /\ iterations'[r].traces = iterations[r].traces
       /\ iterations'[r].mutations = iterations[r].mutations]_vars

----------------------------------------------------------------------------
\* Properties of the instance of the declared object.

\* C29: the member names of the instance of a declared object, its
\* properties and its bound tools, are those it was built with: no write of
\* a property, no assignment to a new member and no delete of a member
\* changes them.
C29_Theorem ==
  /\ instance.members = PropNames \cup ObjectToolNames
  /\ ~lastShapeOp.done

\* The program has written a property and then tried to delete a member.
C29_Witness ==
  /\ lastShapeOp.op = "delete"
  /\ lastShapeOp.name \in PropNames
  /\ Len(changes) > 0

----------------------------------------------------------------------------
\* Properties of the model call.

\* A content that is empty or only whitespace.
Blank(c) == \A k \in 1..Len(c) : c[k] = " "

\* The positions in the truncated list of the user and assistant messages
\* that are not blank, and the k-th of them.
Kept == {i \in 1..Len(truncated) :
           ~Blank(truncated[i].content) /\ truncated[i].role # "system"}
KeptAt(k) == CHOOSE i \in Kept : Cardinality({j \in Kept : j < i}) = k - 1

\* C30: no message handed to the model client has empty or whitespace-only
\* content, nor has the system prompt; the messages handed over are the user
\* and assistant messages of the truncated list that are not blank, each
\* once and in the order of that list.
C30_Theorem ==
  generated > 0 =>
    /\ \A k \in 1..Len(sentMessages) : ~Blank(sentMessages[k].content)
    /\ systemPrompt # NoPrompt => ~Blank(systemPrompt)
    /\ Len(sentMessages) = Cardinality(Kept)
    /\ \A k \in 1..Len(sentMessages) :
         /\ sentMessages[k].content = truncated[KeptAt(k)].content
         /\ sentMessages[k].role = truncated[KeptAt(k)].role

\* The model was called on a list with a whitespace-only message in front of
\* a message with text: only the second was handed over.
C30_Witness ==
  /\ generated > 0
  /\ Len(truncated) = 2
  /\ truncated[1].content = <<" ", " ">>
  /\ truncated[1].role = "user"
  /\ ~Blank(truncated[2].content)
  /\ Len(sentMessages) = 1
  /\ sentMessages[1].content = truncated[2].content

----------------------------------------------------------------------------
\* Properties of the token budget.

\* C31: the response-length reserve for a context window of L tokens is 10%
\* of L, but at least 1000 and at most 16000 tokens, and the budget of the
\* truncation is L minus the reserve; the reserve does not decrease when L
\* grows; for the window of 128000 tokens the budget is 115200 tokens.
C31_Theorem ==
  responseLengthBuffer # 0 =>
    /\ responseLengthBuffer >= 1000 * PerToken
    /\ responseLengthBuffer <= 16000 * PerToken
    /\ \/ 10 * responseLengthBuffer = modelLimit * PerToken
       \/ responseLengthBuffer = 1000 * PerToken /\ modelLimit < 10 * 1000
       \/ responseLengthBuffer = 16000 * PerToken /\ modelLimit > 10 * 16000
    /\ tokenBudget + responseLengthBuffer = modelLimit * PerToken
    /\ responseLengthBuffer <= getModelOutputLimit(modelLimit + 1)
    /\ modelLimit = 128000 => tokenBudget = 115200 * PerToken

\* The budget of the window the engine uses has been computed.
C31_Witness ==
  /\ modelLimit = ModelLimit
  /\ responseLengthBuffer = 12800 * PerToken
  /\ tokenBudget = 115200 * PerToken

----------------------------------------------------------------------------
\* Properties of the hooks. A hook is called when executeContext comes to
\* the await point of that hook.

EnterStart == pc' = "onIterationStart" /\ pc # "onIterationStart"
EnterEnd == pc' = "onIterationEnd" /\ pc # "onIterationEnd"

\* C32: onIterationStart is called at most once in a cycle, when the model
\* call has returned and its llm_call trace is pushed, and the sandbox runs
\* only after it; onIterationEnd is called once for each record an iteration
\* returns, with the record appended and before the run decides to stop or to
\* loop, and only in a cycle whose onIterationStart was called; a cycle that
\* fails before that calls neither hook.
C32_Theorem ==
  /\ [][EnterStart =>
          /\ pc = "llm"
          /\ ~HasTrace(traces, "llm_call")
          /\ traces' = Append(traces, LlmCallTrace)
          /\ vmRuns' = vmRuns
          /\ iterations' = iterations]_vars
  /\ [][vmRuns' # vmRuns => pc = "onIterationStart" /\ pc' = "exec"]_vars
  /\ [][EnterEnd =>
          /\ pc \in {"onIterationStart", "exec"}
          /\ HasTrace(traces', "llm_call")
          /\ Len(iterations') = Len(iterations) + 1
          /\ SubSeq(iterations', 1, Len(iterations)) = iterations
          /\ result' = result
          /\ cycles' = cycles]_vars
  /\ [][(Len(iterations') # Len(iterations) /\ pc' # "done") => EnterEnd]_vars
  /\ [][(pc = "onIterationEnd" /\ pc' # pc) =>
          /\ pc' \in {"top", "done"}
          /\ iterations' = iterations \/ pc' = "done"]_vars
  /\ [][(pc = "llm" /\ pc' # "onIterationStart") => pc' \in {"llm", "done"}]_vars
  /\ [](pc \in {"onIterationStart", "exec", "onIterationEnd"} =>
          Cardinality({j \in 1..Len(traces) : traces[j].type = "llm_call"}) = 1)

\* The second cycle of a run has called both hooks: its record is appended
\* and the run has not decided yet.
C32_Witness ==
  /\ pc = "onIterationEnd"
  /\ cycles = 2
  /\ Len(iterations) = 2
  /\ cyclePushed = 1
  /\ HasTrace(traces, "llm_call")
  /\ result.status = "running"

\* A hook of the cycle in progress has thrown.
HookThrew ==
  hooksOfCycle.onIterationStart = "threw" \/ hooksOfCycle.onIterationEnd = "threw"

\* C33: an exception of onIterationStart or of onIterationEnd changes
\* nothing of the run: the step in which a hook settles, by returning or by
\* throwing, leaves the records, the outcome and every other part of the run
\* as they are, and after it the run goes on by the step it takes after a
\* hook that returned; no outcome is the failure of a hook.
C33_Theorem ==
  /\ [][hookLog' # hookLog => UNCHANGED runVars]_vars
  /\ [](pc = "onIterationStart" => ENABLED PrepareExecution)
  /\ [](pc = "onIterationEnd" => ENABLED AfterIteration)
  /\ [](result.error # "hook_failure")
  /\ [](\A i \in 1..Len(iterations) : iterations[i].error # "hook_failure")

\* Both hooks of a cycle threw, and the run returned success with the record
\* of that cycle.
C33_Witness ==
  /\ hookLog.onIterationStart = "threw"
  /\ hookLog.onIterationEnd = "threw"
  /\ hookLog.cycle = cycles
  /\ result.status = "success"
  /\ Len(returned) = 1
  /\ returned[1].status = "success"

----------------------------------------------------------------------------
\* Properties of the bindings of the declared object.

\* The diff of property p in the changes map of the cycle, if it has one.
HasDiff(p) == \E i \in 1..Len(changes) : changes[i].property = p
DiffOf(p) == changes[CHOOSE i \in 1..Len(changes) : changes[i].property = p]

\* C34: the writes a program commits do not reach the declared values: the
\* bindings of every iteration start from the declared values, so that a
\* binding holds a value other than the declared one only for a property the
\* program of this iteration has written, and then the value of its diff.
C34_Theorem ==
  /\ \A p \in PropNames :
       internalValues[p] = IF HasDiff(p) THEN DiffOf(p).after ELSE DeclaredValues[p]
  /\ (pc = "exec" /\ lastSet = NoSet) => internalValues = DeclaredValues

\* The first iteration committed a write; the bindings of the second hold
\* the declared values again.
C34_Witness ==
  /\ cycles = 2
  /\ pc = "exec"
  /\ lastSet = NoSet
  /\ Len(iterations) = 1
  /\ Len(iterations[1].mutations) > 0
  /\ iterations[1].mutations[1].after # iterations[1].mutations[1].before
  /\ internalValues = DeclaredValues

\* C35: the mutations of a cycle, and of every record, hold at most one diff
\* for a property, however often it was written; before is the value the
\* bindings were built with and after the value the binding holds, the last
\* one committed.
C35_Theorem ==
  /\ \A i, j \in 1..Len(changes) :
       changes[i].property = changes[j].property => i = j
  /\ \A i \in 1..Len(changes) :
       /\ changes[i].before = DeclaredValues[changes[i].property]
       /\ changes[i].after = internalValues[changes[i].property]
  /\ \A r \in 1..Len(iterations) :
       LET mut == iterations[r].mutations
       IN /\ Len(mut) <= Cardinality(PropNames)
          /\ \A i, j \in 1..Len(mut) : mut[i].property = mut[j].property => i = j
          /\ \A i \in 1..Len(mut) : mut[i].before = DeclaredValues[mut[i].property]

\* A program wrote one property twice: the changes map holds one diff, from
\* the declared value to the second value.
C35_Witness ==
  /\ pc = "exec"
  /\ writes = 2
  /\ Len(PropertyTraces(traces)) = 2
  /\ Len(changes) = 1
  /\ changes[1].after = internalValues[changes[1].property]
  /\ changes[1].after # changes[1].before

----------------------------------------------------------------------------
\* Properties of concurrent tool calls.

\* The tool_call trace call i pushes when it settles with outcome o.
OwnTrace(i, o) ==
  LET tool == Declared(calls[i].key)
      base == [type |-> "tool_call", call |-> i, tool_name |-> tool.name,
               input |-> getToolInput(tool, calls[i].input)]
  IN IF o.how = "return"
     THEN base @@ [output |-> o.value, error |-> Undefined, success |-> TRUE]
     ELSE IF o.value.kind = "Error"
     THEN base @@ [output |-> Undefined, error |-> o.value, success |-> FALSE]
     ELSE base @@ [output |-> o.value, error |-> Undefined, success |-> TRUE]

\* C36: of several asynchronous calls pending at once, each one that settles
\* has exactly one tool_call trace, with its own tool, input, output or error
\* and success flag, whatever the order of settlement, and a pending one has
\* none; each trace is pushed at the end of the traces when its call settles,
\* so that the tool_call traces are in the order of settlement.
C36_Theorem ==
  /\ [](\A i \in 1..Len(calls) :
         IF calls[i].state = "settled"
         THEN /\ Cardinality(TraceIdx(i, "tool_call")) = 1
              /\ \A k \in TraceIdx(i, "tool_call") : traces[k] = OwnTrace(i, calls[i].outcome)
         ELSE TraceIdx(i, "tool_call") = {})
  /\ [][\A i \in 1..Len(calls) :
          (calls[i].state = "pending" /\ calls'[i].state = "settled") =>
            /\ Len(traces') > Len(traces)
            /\ SubSeq(traces', 1, Len(traces)) = traces
            /\ traces'[Len(traces')] = OwnTrace(i, calls'[i].outcome)
            /\ \A j \in 1..Len(calls) : j # i => calls'[j] = calls[j]]_vars

\* Two calls with different inputs were pending at once; the second settled
\* first, by a rejection, and then the first, by a result.
C36_Witness ==
  /\ Len(calls) >= 2
  /\ calls[1].state = "settled" /\ calls[2].state = "settled"
  /\ calls[1].input # calls[2].input
  /\ calls[1].outcome.how = "return"
  /\ calls[2].outcome.value.kind = "Error"
  /\ \A j \in TraceIdx(1, "tool_call"), k \in TraceIdx(2, "tool_call") : k < j

----------------------------------------------------------------------------
\* Properties of the injected variables.

\* The step after onIterationEnd of a Think iteration that goes round the
\* loop again.
EndOfThink ==
  /\ pc = "onIterationEnd"
  /\ pc' = "top"
  /\ LastRecord.status = "partial"
  /\ LastRecord.signal = "ThinkSignal"

\* C37: the injected variables change only in the step that ends a partial
\* (Think) iteration and loops: every other step, after an error or success
\* record, on cancellation or on a fatal failure, leaves them as they are; no
\* step removes a key; at the end of a Think iteration a key of the context
\* payload gets the payload's value, also when the think variables have it
\* too, a key of the think variables alone gets theirs, and the other keys
\* keep their values.
C37_Theorem ==
  /\ [][injectedVariables' # injectedVariables => EndOfThink /\ ~aborted]_vars
  /\ [][\A k \in Keys : injectedVariables[k] # 0 => injectedVariables'[k] # 0]_vars
  /\ [][EndOfThink =>
          \A k \in Keys :
            injectedVariables'[k] =
              IF LastRecord.context[k] # 0 THEN LastRecord.context[k]
              ELSE IF LastRecord.variables[k] # 0 THEN LastRecord.variables[k]
              ELSE injectedVariables[k]]_vars

\* A Think iteration whose variables and context payload both hold x has
\* ended: x has the value of the payload.
C37_Witness ==
  /\ AfterThink
  /\ LastRecord.variables["x"] = 1
  /\ LastRecord.context["x"] = 2
  /\ injectedVariables["x"] = 2

----------------------------------------------------------------------------
\* Properties of the partial-execution messages.

\* The records of iterations that ended as Think, Invalid-code or
\* Code-execution failure.
Continued ==
  {i \in 1..Len(iterations) :
     \/ iterations[i].status = "partial" /\ iterations[i].signal = "ThinkSignal"
     \/ iterations[i].error \in {"InvalidCodeError", "CodeExecutionError"}}

\* C38: between two cycles of a run, and before the first, the
\* partial-execution messages are twice as many as the iterations that ended
\* as Think, Invalid-code or Code-execution failure, and twice the iteration
\* counter; the list gets shorter only in the step that returns a record
\* with status success, which empties it.
C38_Theorem ==
  /\ [](pc = "top" =>
          /\ Len(partialExecutionMessages) = 2 * Cardinality(Continued)
          /\ Len(partialExecutionMessages) = 2 * iteration)
  /\ [][Len(partialExecutionMessages') < Len(partialExecutionMessages) =>
          /\ Pushes
          /\ NewRecord.status = "success"
          /\ partialExecutionMessages' = <<>>]_vars

\* A Think iteration and an Invalid-code failure have ended: four messages,
\* counter two.
C38_Witness ==
  /\ pc = "top"
  /\ Len(iterations) = 2
  /\ iterations[1].status = "partial"
  /\ iterations[2].error = "InvalidCodeError"
  /\ Len(partialExecutionMessages) = 4
  /\ iteration = 2

====
